---- MODULE Spec2Model ----
(***************************************************************************)
(* A model of the Cognitive-Bionic memory architecture:                    *)
(*   layer 3  CognitiveLoadMonitor, OutputRegulator  (SpecOut)             *)
(*   layer 2  AttentionBuffer and PhonologicalLoop   (SpecBuf, SpecLoop)   *)
(*   layer 1  episodic / semantic stores, DualStore  (SpecStore,           *)
(*            SpecSearch)                                                  *)
(*   axis     SaliencyScorer, ConsolidationEngine    (SpecScore, SpecStore,*)
(*            SpecStamp; SpecRace takes run statement by statement;        *)
(*            SpecCycles is run after run with the clock held)             *)
(*   layer 0  KnowledgeGraph, ArbitrationLayer       (SpecArb)             *)
(*                                                                         *)
(* Text is a sequence of characters; a character is a one-element string   *)
(* (a CJK character of the source is written as its romanised atom).       *)
(* Real numbers are exact fixed-point integers: dimension scores in        *)
(* millionths, weights in hundredths, confidences in hundredths.           *)
(***************************************************************************)
EXTENDS Integers, Sequences, FiniteSets, TLC

VARIABLES
  \* ---- layer 2: AttentionBuffer
  capacity,          \* AttentionBuffer.capacity
  buffer,            \* AttentionBuffer.buffer: sequence of ConceptChunk
  compression_log,   \* AttentionBuffer.compression_log
  bufResult,         \* what the last add / get_active_context call returned
  bufOps,            \* number of buffer calls made so far
  \* ---- layer 2: PhonologicalLoop
  cycle_threshold,   \* PhonologicalLoop.cycle_threshold
  cycling,           \* PhonologicalLoop.cycling: key -> count
  loopResult,        \* what the last encounter call returned
  encounters,        \* per key: the results of its encounter calls, oldest first
  loopOps,           \* number of encounter calls made so far
  \* ---- SaliencyScorer.score as a function of its arguments
  scEpisode,         \* the episode argument
  scEntries,         \* the semantic_entries argument
  scAll,             \* the all_episodes argument
  scNow,             \* datetime.now() at the call
  scResult,          \* the ScoreResult returned
  \* ---- layer 1 stores and the consolidation engine
  episodes,          \* EpisodicStore.episodes
  entries,           \* SemanticStore.entries
  alias_map,         \* TemporaryBinding.alias_map
  now,               \* the wall clock, in steps of 10 days
  consolidation_history,  \* ConsolidationEngine.consolidation_history
  storeResult,       \* what the last store / engine call returned
  issuedIds,         \* every episode id assigned so far, seeds first
  storeOps,          \* number of store / engine calls made so far
  \* ---- layer 0: KnowledgeGraph and ArbitrationLayer
  triples,           \* KnowledgeGraph.triples (the index is derived from it)
  arbResult,         \* what the last arbitrate call returned
  llmCalls,          \* the queries passed to llm.generate so far
  arbOps,            \* number of arbitrate calls made so far
  \* ---- a run of the engine taken statement by statement
  run_frame,         \* the locals of the run call in progress
  added,             \* the episodes add_episode has returned so far
  \* ---- layer 3: OutputRegulator.regulate as a function of its arguments
  outText,           \* the response_text argument
  outKnown,          \* the known_concepts argument
  outResult          \* the value returned

bufVars  == <<capacity, buffer, compression_log, bufResult, bufOps>>
loopVars == <<cycle_threshold, cycling, loopResult, encounters, loopOps>>
scVars   == <<scEpisode, scEntries, scAll, scNow, scResult>>
storeVars == <<episodes, entries, alias_map, now, consolidation_history,
               storeResult, issuedIds, storeOps>>
arbVars  == <<triples, arbResult, llmCalls, arbOps>>
raceVars == <<run_frame, added>>
outVars  == <<outText, outKnown, outResult>>
vars     == <<bufVars, loopVars, scVars, storeVars, arbVars, raceVars, outVars>>

(***************************************************************************)
(* Text                                                                    *)
(***************************************************************************)
UpperChars ==
  <<"A", "B", "C", "D", "E", "F", "G", "H", "I", "J", "K", "L", "M",
    "N", "O", "P", "Q", "R", "S", "T", "U", "V", "W", "X", "Y", "Z">>
LowerChars ==
  <<"a", "b", "c", "d", "e", "f", "g", "h", "i", "j", "k", "l", "m",
    "n", "o", "p", "q", "r", "s", "t", "u", "v", "w", "x", "y", "z">>

\* str.lower() on one character
LowerChar(c) ==
  IF \E i \in 1..Len(UpperChars) : UpperChars[i] = c
    THEN LowerChars[CHOOSE i \in 1..Len(UpperChars) : UpperChars[i] = c]
    ELSE c

\* str.lower()
Lower(s) == [i \in 1..Len(s) |-> LowerChar(s[i])]

\* Python's `s in t` on strings
IsSubstr(s, t) ==
  \E i \in 0..(Len(t) - Len(s)) : SubSeq(t, i + 1, i + Len(s)) = s

\* s[:n]
Take(s, n) == SubSeq(s, 1, IF Len(s) < n THEN Len(s) ELSE n)

\* sep.join(parts)
RECURSIVE Join(_, _)
Join(parts, sep) ==
  IF parts = <<>> THEN <<>>
  ELSE IF Len(parts) = 1 THEN parts[1]
  ELSE parts[1] \o sep \o Join(Tail(parts), sep)

(***************************************************************************)
(* Layer 2: AttentionBuffer                                                *)
(***************************************************************************)
\* ConceptChunk.__init__ (added_at / last_accessed are wall-clock stamps that
\* no operation reads; they are left out of the chunk)
ConceptChunk(concept, content, source, is_compressed, raw_concepts) ==
  [concept |-> concept, content |-> content, source |-> source,
   is_compressed |-> is_compressed, raw_concepts |-> raw_concepts,
   access_count |-> 0]

\* an access that forgets to count
AccessNoCount(chunk) == chunk

\* ConceptChunk.access
Access(chunk) == [chunk EXCEPT !.access_count = @ + 1]

\* the fuzzy test with one direction only: the label inside the concept
LabelInConcept(concept, label) == IsSubstr(Lower(label), Lower(concept))

\* the fuzzy test of add: either label contains the other, case-insensitively
FuzzyMatch(concept, label) ==
  \/ IsSubstr(Lower(concept), Lower(label))
  \/ IsSubstr(Lower(label), Lower(concept))

MatchingIndices(buf, concept) ==
  {i \in 1..Len(buf) : FuzzyMatch(concept, buf[i].concept)}

Max(S) == CHOOSE x \in S : \A y \in S : y <= x
Min(S) == CHOOSE x \in S : \A y \in S : x <= y

LastMatch(buf, concept) == Max(MatchingIndices(buf, concept))

\* the chunk the `for chunk in self.buffer` loop returns on: the first match
FirstMatch(buf, concept) == Min(MatchingIndices(buf, concept))

\* eviction score, doubled so that 0.5 is an integer:
\*   access_count * 2.0 + (0 if compressed else 1.0) + (1.0 if conversation else 0.5)
EvictionScore2(chunk) ==
  4 * chunk.access_count
  + (IF chunk.is_compressed THEN 0 ELSE 2)
  + (IF chunk.source = "conversation" THEN 2 ELSE 1)

\* list.sort(key=score) is stable: a chunk goes after every chunk whose score
\* is not larger
RECURSIVE InsertByScore(_, _)
InsertByScore(sorted, chunk) ==
  IF sorted = <<>> THEN <<chunk>>
  ELSE IF EvictionScore2(chunk) < EvictionScore2(Head(sorted))
    THEN <<chunk>> \o sorted
    ELSE <<Head(sorted)>> \o InsertByScore(Tail(sorted), chunk)

RECURSIVE SortByScore(_)
SortByScore(buf) ==
  IF buf = <<>> THEN <<>>
  ELSE InsertByScore(SortByScore(SubSeq(buf, 1, Len(buf) - 1)), buf[Len(buf)])

\* scored[:2] and scored[2:]
Evicted(buf) == Take(SortByScore(buf), 2)
Kept(buf)    == SubSeq(SortByScore(buf), 3, Len(buf))

Labels(chunks) == [i \in 1..Len(chunks) |-> chunks[i].concept]

\* "[壓縮] " : the prefix of a compressed chunk's label
CompressedPrefix == <<"[", "ya", "suo", "]", " ">>
\* "（組塊化摘要）" : the prefix of a compressed chunk's content
SummaryPrefix == <<"(", "zu", "kuai", "hua", "zhai", "yao", ")">>
ExcerptLen == 50

\* f"{c.concept}: {c.content[:50]}"
Excerpt(chunk) == chunk.concept \o <<":", " ">> \o Take(chunk.content, ExcerptLen)

CompressedChunk(evicted) ==
  ConceptChunk(
    CompressedPrefix \o Join(Labels(evicted), <<" ", "+", " ">>),
    SummaryPrefix
      \o Join([i \in 1..Len(evicted) |-> Excerpt(evicted[i])], <<" ", "|", " ">>),
    "compression", TRUE, Labels(evicted))

\* AttentionBuffer._compress_and_add: the new buffer, log and return value
CompressAndAdd(buf, log, cap, new_chunk) ==
  LET evicted    == Evicted(buf)
      compressed == CompressedChunk(evicted)
      after      == Kept(buf) \o <<compressed, new_chunk>>
  IN [buffer |-> after,
      log    |-> Append(log, [evicted |-> Labels(evicted),
                              compressed_into |-> compressed.concept,
                              new_concept |-> new_chunk.concept,
                              buffer_after |-> Labels(after)]),
      result |-> [action |-> "compressed", concept |-> new_chunk.concept,
                  evicted |-> Labels(evicted),
                  compressed_into |-> compressed.concept,
                  buffer_size |-> Len(after), capacity |-> cap]]

\* AttentionBuffer.add: the new buffer, log and return value
AddOutcome(buf, log, cap, concept, content, source) ==
  IF MatchingIndices(buf, concept) # {}
    THEN [buffer |-> [buf EXCEPT ![FirstMatch(buf, concept)] = Access(@)],
          log    |-> log,
          result |-> [action |-> "refreshed", concept |-> concept,
                      buffer_size |-> Len(buf), capacity |-> cap]]
  ELSE IF Len(buf) < cap
    THEN [buffer |-> Append(buf, ConceptChunk(concept, content, source, FALSE, <<>>)),
          log    |-> log,
          result |-> [action |-> "added", concept |-> concept,
                      buffer_size |-> Len(buf) + 1, capacity |-> cap]]
  ELSE CompressAndAdd(buf, log, cap,
                      ConceptChunk(concept, content, source, FALSE, <<>>))

\* ---- bounds and inputs of the buffer model
MaxCapacity == 3
MaxBufOps   == 4

BufConcepts ==
  { <<"a">>, <<"B">>, <<"b">>, <<"a", "b">>, <<"c">>, <<"+">> }
BufContents == { <<"x">> }
BufSources  == { "conversation", "episodic" }

NoResult == [action |-> "none"]

\* one call of AttentionBuffer.add
Add(concept, content, source) ==
  /\ bufOps < MaxBufOps
  /\ LET out == AddOutcome(buffer, compression_log, capacity, concept, content, source)
     IN /\ buffer' = out.buffer
        /\ compression_log' = out.log
        /\ bufResult' = out.result
  /\ bufOps' = bufOps + 1
  /\ UNCHANGED <<capacity, loopVars, scVars, storeVars, arbVars, raceVars, outVars>>

\* one call of AttentionBuffer.get_active_context
GetActiveContext ==
  /\ bufOps < MaxBufOps
  /\ buffer' = [i \in 1..Len(buffer) |-> Access(buffer[i])]
  /\ bufResult' = [action |-> "context",
                   parts |-> [i \in 1..Len(buffer) |->
                                <<"[">> \o buffer[i].concept \o <<"]", " ">>
                                \o buffer[i].content]]
  /\ bufOps' = bufOps + 1
  /\ UNCHANGED <<capacity, compression_log, loopVars, scVars, storeVars, arbVars, raceVars, outVars>>

(***************************************************************************)
(* Layer 2: PhonologicalLoop                                               *)
(***************************************************************************)
MaxThreshold == 3
MaxLoopOps   == 6

LoopConcepts == { <<"a">>, <<"A">>, <<"b">> }
LoopKeys     == { Lower(c) : c \in LoopConcepts }

\* encounter with `>` for `>=` in the threshold test
EncounterOffByOne(cyc, threshold, concept) ==
  LET key == Lower(concept) IN
  IF key \notin DOMAIN cyc
    THEN [cycling |-> [k \in DOMAIN cyc \cup {key} |->
                         IF k = key THEN 1 ELSE cyc[k]],
          result  |-> [concept |-> concept, status |-> "new", cycles |-> 1]]
  ELSE IF cyc[key] + 1 > threshold
    THEN [cycling |-> [k \in DOMAIN cyc \ {key} |-> cyc[k]],
          result  |-> [concept |-> concept, status |-> "consolidated",
                       cycles |-> cyc[key] + 1]]
    ELSE [cycling |-> [cyc EXCEPT ![key] = @ + 1],
          result  |-> [concept |-> concept, status |-> "cycling",
                       cycles |-> cyc[key] + 1]]

\* PhonologicalLoop.encounter: the new cycling map and the return value
EncounterOutcome(cyc, threshold, concept) ==
  LET key == Lower(concept) IN
  IF key \notin DOMAIN cyc
    THEN [cycling |-> [k \in DOMAIN cyc \cup {key} |->
                         IF k = key THEN 1 ELSE cyc[k]],
          result  |-> [concept |-> concept, status |-> "new", cycles |-> 1]]
  ELSE IF cyc[key] + 1 >= threshold
    THEN [cycling |-> [k \in DOMAIN cyc \ {key} |-> cyc[k]],
          result  |-> [concept |-> concept, status |-> "consolidated",
                       cycles |-> cyc[key] + 1]]
    ELSE [cycling |-> [cyc EXCEPT ![key] = @ + 1],
          result  |-> [concept |-> concept, status |-> "cycling",
                       cycles |-> cyc[key] + 1]]

\* PhonologicalLoop.get_cycling_concepts
GetCyclingConcepts(cyc) == cyc

EmptyMap == [k \in {} |-> 0]
NoLoopResult == [status |-> "none"]

\* one call of PhonologicalLoop.encounter
Encounter(concept) ==
  /\ loopOps < MaxLoopOps
  /\ LET out == EncounterOutcome(cycling, cycle_threshold, concept)
         key == Lower(concept)
     IN /\ cycling' = out.cycling
        /\ loopResult' = out.result
        /\ encounters' = [encounters EXCEPT ![key] = Append(@, out.result)]
  /\ loopOps' = loopOps + 1
  /\ UNCHANGED <<cycle_threshold, bufVars, scVars, storeVars, arbVars, raceVars, outVars>>

(***************************************************************************)
(* Records of the stores                                                   *)
(*   Episode: [id, timestamp, source, content, tags, user_importance,      *)
(*             emotional_valence (tenths), retrieval_count]                *)
(*   timestamp: [kind |-> "iso", t |-> time], or kind "malformed" (a       *)
(*             string that does not parse), "missing" (no such key),      *)
(*             "nonstring" (null or a number)                             *)
(*   SemanticEntry: [id, concept, content, source_episodes, confidence]    *)
(* Time is counted in steps of 10 days.                                    *)
(***************************************************************************)
DigitChars == <<"0", "1", "2", "3", "4", "5", "6", "7", "8", "9">>

\* f"{n:03d}" for n < 1000
Pad3(n) ==
  <<DigitChars[((n \div 100) % 10) + 1], DigitChars[((n \div 10) % 10) + 1],
    DigitChars[(n % 10) + 1]>>

\* f"ep_{n:03d}" and f"sem_{n:03d}"
EpId(n)  == <<"e", "p", "_">> \o Pad3(n)
SemId(n) == <<"s", "e", "m", "_">> \o Pad3(n)

SemanticEntry(id, concept, content, source_episodes, confidence) ==
  [id |-> id, concept |-> concept, content |-> content,
   source_episodes |-> source_episodes, confidence |-> confidence]

Iso(t)    == [kind |-> "iso", t |-> t]
Malformed == [kind |-> "malformed", t |-> 0]
\* an episode without the key "timestamp", and one whose timestamp is not a
\* string (null, a number)
Missing   == [kind |-> "missing", t |-> 0]
NonString == [kind |-> "nonstring", t |-> 0]

Episode(id, timestamp, source, content, tags, importance, valence, count) ==
  [id |-> id, timestamp |-> timestamp, source |-> source, content |-> content,
   tags |-> tags, user_importance |-> importance,
   emotional_valence |-> valence, retrieval_count |-> count]

SeqToSet(s) == {s[i] : i \in 1..Len(s)}

\* set(t.lower() for t in episode.get("tags", []))
TagSet(ep) == {Lower(ep.tags[i]) : i \in 1..Len(ep.tags)}

Abs(x) == IF x < 0 THEN -x ELSE x

(***************************************************************************)
(* SaliencyScorer: dimension scores in millionths                          *)
(***************************************************************************)
Micro == 1000000

WFrequency   == 25
WRecency     == 20
WUserSignal  == 25
WNovelty     == 15
WConnection  == 15
ConsolidationThreshold == 65
PruningThreshold       == 25

\* floor(10^6 * ln(1 + c) / ln(16)) for c = 0..15
FrequencyTable ==
  <<0, 250000, 396240, 500000, 580482, 646240, 701838, 750000,
    792481, 830482, 864857, 896240, 925109, 951838, 976722, 1000000>>

\* min(log1p(count) / log1p(15), 1.0)
FrequencyScore(ep) ==
  IF ep.retrieval_count >= Len(FrequencyTable) - 1 THEN Micro
  ELSE FrequencyTable[ep.retrieval_count + 1]

\* floor(10^6 * exp(-0.693 * days / 30)) for days = -30, -20, ..., 120
RecencyTable ==
  <<1999705, 1587245, 1259859, 1000000, 793739, 630022, 500073, 396928,
    315057, 250073, 198493, 157551, 125055, 99261, 78787, 62536>>
RecencyOrigin == 4

\* _recency_score catches (ValueError, KeyError) only: fromisoformat of a
\* value that is not a string raises TypeError, which leaves the scorer
RecencyRaises(ep) == ep.timestamp.kind = "nonstring"

\* _recency_score when it returns: 0.5 when the key is absent or the string
\* does not parse, else the decay of (clock - ts); nothing clamps a negative
\* age
RecencyScore(ep, clock) ==
  IF ep.timestamp.kind \in {"malformed", "missing"} THEN Micro \div 2
  ELSE RecencyTable[(clock - ep.timestamp.t) + RecencyOrigin]

\* 0.6 * importance / 5 + 0.4 * |valence|
UserSignalScore(ep) ==
  120000 * ep.user_importance + 40000 * Abs(ep.emotional_valence)

\* (entry.get("concept") + " " + entry.get("content")).lower()
EntryText(entry) == Lower(entry.concept \o <<" ">> \o entry.content)

CoveredTags(ep, ents) ==
  {tag \in TagSet(ep) :
     \E i \in 1..Len(ents) : IsSubstr(tag, EntryText(ents[i]))}

\* 1 - covered / tags, 0.5 for an episode without tags
NoveltyScore(ep, ents) ==
  IF TagSet(ep) = {} THEN Micro \div 2
  ELSE Micro - (Cardinality(CoveredTags(ep, ents)) * Micro)
                 \div Cardinality(TagSet(ep))

Connections(ep, all) ==
  Cardinality({i \in 1..Len(all) :
                 /\ all[i].id # ep.id
                 /\ TagSet(ep) \cap TagSet(all[i]) # {}})

\* min(connections / 4.0, 1.0), 0 for an episode without tags
ConnectionDensityScore(ep, all) ==
  IF TagSet(ep) = {} THEN 0
  ELSE IF Connections(ep, all) >= 4 THEN Micro
  ELSE (Connections(ep, all) * Micro) \div 4

\* round(x, 3) of a value given in units of 1/(1000 * unit): thousandths,
\* ties to even
Round3(x, unit) ==
  LET q == x \div unit
      r == x % unit
  IN IF 2 * r > unit THEN q + 1
     ELSE IF 2 * r < unit THEN q
     ELSE IF q % 2 = 0 THEN q ELSE q + 1

\* the weighted sum, in units of 10^-8
Total(ep, ents, all, clock) ==
  WFrequency * FrequencyScore(ep)
  + WRecency * RecencyScore(ep, clock)
  + WUserSignal * UserSignalScore(ep)
  + WNovelty * NoveltyScore(ep, ents)
  + WConnection * ConnectionDensityScore(ep, all)

\* the action decided on the unrounded total
ActionOf(total) ==
  IF total >= ConsolidationThreshold * Micro THEN "consolidate"
  ELSE IF total <= PruningThreshold * Micro THEN "prune"
  ELSE "retain"

\* SaliencyScorer.score; total_score and dimensions are in thousandths
Score(ep, ents, all, clock) ==
  [episode_id  |-> ep.id,
   total_score |-> Round3(Total(ep, ents, all, clock), 100 * (Micro \div 1000)),
   dimensions  |->
     [frequency          |-> Round3(FrequencyScore(ep), Micro \div 1000),
      recency            |-> Round3(RecencyScore(ep, clock), Micro \div 1000),
      user_signal        |-> Round3(UserSignalScore(ep), Micro \div 1000),
      novelty            |-> Round3(NoveltyScore(ep, ents), Micro \div 1000),
      connection_density |-> Round3(ConnectionDensityScore(ep, all), Micro \div 1000)],
   action      |-> ActionOf(Total(ep, ents, all, clock))]

(***************************************************************************)
(* Layer 1: EpisodicStore, SemanticStore, TemporaryBinding, DualStore      *)
(***************************************************************************)
\* the full-width question mark and comma of the source
FwQuestion == "fw?"
FwComma    == "fw,"

\* .replace("？", "").replace("?", "").replace("，", " ")
StripPunctuation(s) ==
  LET kept == SelectSeq(s, LAMBDA c : c \notin {FwQuestion, "?"})
  IN [i \in 1..Len(kept) |-> IF kept[i] = FwComma THEN " " ELSE kept[i]]

\* str.split(): the maximal runs of non-blank characters
RECURSIVE Split(_)
Split(s) ==
  IF s = <<>> THEN <<>>
  ELSE IF Head(s) = " " THEN Split(Tail(s))
  ELSE LET stop == IF \E i \in 1..Len(s) : s[i] = " "
                     THEN Min({i \in 1..Len(s) : s[i] = " "})
                     ELSE Len(s) + 1
       IN <<SubSeq(s, 1, stop - 1)>> \o Split(SubSeq(s, stop, Len(s)))

\* for term in terms: term, then the words of its bound meaning
RECURSIVE ExpandTerms(_, _)
ExpandTerms(terms, aliases) ==
  IF terms = <<>> THEN <<>>
  ELSE <<Head(terms)>>
       \o (IF Head(terms) \in DOMAIN aliases
             THEN Split(Lower(aliases[Head(terms)])) ELSE <<>>)
       \o ExpandTerms(Tail(terms), aliases)

\* EpisodicStore._expand_query (SemanticStore.search repeats it inline)
ExpandQuery(query, aliases) ==
  ExpandTerms(Split(StripPunctuation(Lower(query))), aliases)

\* sum(1 for t in terms if t in text)
Hits(text, terms) ==
  Cardinality({i \in 1..Len(terms) : IsSubstr(terms[i], text)})

\* (content + " " + " ".join(tags)).lower()
EpisodeText(ep) == Lower(ep.content \o <<" ">> \o Join(ep.tags, <<" ">>))

\* a hit: {**record, "_relevance": hits / max(len(terms), 1)}, the relevance
\* kept as the exact fraction <<hits, max(len(terms), 1)>>
Hit(record, hits, terms) ==
  [record |-> record,
   relevance |-> <<hits, IF Len(terms) = 0 THEN 1 ELSE Len(terms)>>]

\* a / b > c / d for positive denominators
FracGreater(x, y) == x[1] * y[2] > y[1] * x[2]

\* sorted(..., key=_relevance, reverse=True) is stable: a hit goes after
\* every hit whose relevance is not smaller
RECURSIVE InsertByRelevance(_, _)
InsertByRelevance(sorted, hit) ==
  IF sorted = <<>> THEN <<hit>>
  ELSE IF FracGreater(hit.relevance, Head(sorted).relevance)
    THEN <<hit>> \o sorted
    ELSE <<Head(sorted)>> \o InsertByRelevance(Tail(sorted), hit)

RECURSIVE SortByRelevance(_)
SortByRelevance(hits) ==
  IF hits = <<>> THEN <<>>
  ELSE InsertByRelevance(SortByRelevance(SubSeq(hits, 1, Len(hits) - 1)),
                         hits[Len(hits)])

\* the records kept only when their relevance exceeds 0.3
RECURSIVE MatchesRelevant(_, _, _)
MatchesRelevant(records, texts, terms) ==
  IF records = <<>> THEN <<>>
  ELSE (IF FracGreater(Hit(Head(records), Hits(Head(texts), terms), terms).relevance,
                       <<3, 10>>)
          THEN <<Hit(Head(records), Hits(Head(texts), terms), terms)>>
          ELSE <<>>)
       \o MatchesRelevant(Tail(records), Tail(texts), terms)

\* the records with a positive score, in store order
RECURSIVE Matches(_, _, _)
Matches(records, texts, terms) ==
  IF records = <<>> THEN <<>>
  ELSE (IF Hits(Head(texts), terms) > 0
          THEN <<Hit(Head(records), Hits(Head(texts), terms), terms)>>
          ELSE <<>>)
       \o Matches(Tail(records), Tail(texts), terms)

\* EpisodicStore.search
EpisodicSearch(eps, query, aliases) ==
  SortByRelevance(Matches(eps, [i \in 1..Len(eps) |-> EpisodeText(eps[i])],
                          ExpandQuery(query, aliases)))

\* SemanticStore.search
SemanticSearch(ents, query, aliases) ==
  SortByRelevance(Matches(ents, [i \in 1..Len(ents) |-> EntryText(ents[i])],
                          ExpandQuery(query, aliases)))

\* EpisodicStore.add_episode: the episode built for a store of n episodes
NewEpisode(n, content, source, tags, importance, clock) ==
  Episode(EpId(n + 1), Iso(clock), source, content, tags, importance, 0, 0)

\* EpisodicStore.increment_retrieval: the first episode with the id
IncrementRetrieval(eps, id) ==
  IF \E i \in 1..Len(eps) : eps[i].id = id
    THEN [eps EXCEPT ![Min({i \in 1..Len(eps) : eps[i].id = id})].retrieval_count
                       = @ + 1]
    ELSE eps

\* the retrieval tracking with only the best hit counted
IncrementFirstOnly(eps, hits) ==
  IF hits = <<>> THEN eps ELSE IncrementRetrieval(eps, Head(hits).record.id)

\* for r in ep_results[:3]: increment_retrieval(r["id"])
RECURSIVE IncrementAll(_, _)
IncrementAll(eps, hits) ==
  IF hits = <<>> THEN eps
  ELSE IncrementAll(IncrementRetrieval(eps, Head(hits).record.id), Tail(hits))

TopEpisodic  == 5
TopSemantic  == 3
TopRetrieved == 3

\* relevance > 0.3
Relevant(hit) == FracGreater(hit.relevance, <<3, 10>>)

\* the strategy with one episodic result taken as sufficient
StrategyLoose(ep_results, sem_results) ==
  LET ep_sufficient  == Len(ep_results) >= 1 /\ Relevant(ep_results[1])
      sem_sufficient == Len(sem_results) >= 1 /\ Relevant(sem_results[1])
  IN IF ep_sufficient /\ sem_sufficient THEN "both_available"
     ELSE IF ep_sufficient THEN "episodic_primary"
     ELSE IF sem_sufficient THEN "semantic_compensation"
     ELSE "insufficient"

\* the strategy of DualStore.search
Strategy(ep_results, sem_results) ==
  LET ep_sufficient  == Len(ep_results) >= 2 /\ Relevant(ep_results[1])
      sem_sufficient == Len(sem_results) >= 1 /\ Relevant(sem_results[1])
  IN IF ep_sufficient /\ sem_sufficient THEN "both_available"
     ELSE IF ep_sufficient THEN "episodic_primary"
     ELSE IF sem_sufficient THEN "semantic_compensation"
     ELSE "insufficient"

\* DualStore.search: the value returned
SearchResult(eps, ents, aliases, query) ==
  [kind |-> "search",
   strategy |-> Strategy(EpisodicSearch(eps, query, aliases),
                         SemanticSearch(ents, query, aliases)),
   episodic_results |-> Take(EpisodicSearch(eps, query, aliases), TopEpisodic),
   semantic_results |-> Take(SemanticSearch(ents, query, aliases), TopSemantic),
   active_aliases |-> aliases]

(***************************************************************************)
(* ConsolidationEngine                                                     *)
(***************************************************************************)
\* add_entry with the id taken from the length itself
NewEntryStale(n, concept, content, source_episodes, confidence) ==
  SemanticEntry(SemId(n), concept, content, source_episodes, confidence)

\* SemanticStore.add_entry: the entry built for a store of n entries
NewEntry(n, concept, content, source_episodes, confidence) ==
  SemanticEntry(SemId(n + 1), concept, content, source_episodes, confidence)

SourceLabelLen == 30
PatternLen     == 100
ReportSourceLen == 40

\* f"從「{ep['source'][:30]}」提煉的洞見"
InsightConcept(ep) ==
  <<"cong", "[[">> \o Take(ep.source, SourceLabelLen)
  \o <<"]]", "ti", "lian", "de", "dong", "jian">>

\* ConsolidationEngine._extract_pattern
ExtractPattern(ep) ==
  <<"(", "zi", "dong", "ti", "lian", ")">>
  \o (IF Len(ep.content) > PatternLen
        THEN Take(ep.content, PatternLen) \o <<".", ".", ".">>
        ELSE ep.content)

\* sum(1 for tag in ep_tags if tag in entry_text)
TagOverlap(ep, entry) ==
  Cardinality({tag \in TagSet(ep) : IsSubstr(tag, Lower(entry.content))})

\* the dedup test of run without the source_episodes membership test
AlreadyByOverlapOnly(ep, ents) ==
  \E i \in 1..Len(ents) : TagOverlap(ep, ents[i]) >= 2

\* the dedup test of run without the tag overlap test
AlreadyByIdOnly(ep, ents) ==
  \E i \in 1..Len(ents) : ep.id \in SeqToSet(ents[i].source_episodes)

\* the dedup test of run: some entry lists the id or holds two of the tags
AlreadyConsolidated(ep, ents) ==
  \E i \in 1..Len(ents) :
    \/ ep.id \in SeqToSet(ents[i].source_episodes)
    \/ TagOverlap(ep, ents[i]) >= 2

\* next(e for e in episodes if e["id"] == id)
EpisodeById(eps, id) == eps[Min({i \in 1..Len(eps) : eps[i].id = id})]

\* a selection that keeps every score
SelectEvery(scores, action) == scores

\* [s for s in scores if s["action"] == action]
SelectAction(scores, action) == SelectSeq(scores, LAMBDA sc : sc.action = action)

\* a consolidation loop that forgets the entries it started from
ConsolidateFromEmpty(items, eps, acc) ==
  [entries |-> <<>>, consolidated |-> <<>>]

\* the consolidation loop of run: acc = [entries, consolidated]
RECURSIVE Consolidate(_, _, _)
Consolidate(items, eps, acc) ==
  IF items = <<>> THEN acc
  ELSE LET ep == EpisodeById(eps, Head(items).episode_id)
           entry == NewEntry(Len(acc.entries), InsightConcept(ep),
                             ExtractPattern(ep), <<ep.id>>,
                             Head(items).total_score)
       IN Consolidate(Tail(items), eps,
            IF AlreadyConsolidated(ep, acc.entries) THEN acc
            ELSE [entries |-> Append(acc.entries, entry),
                  consolidated |-> Append(acc.consolidated,
                     [source_episode |-> ep.id,
                      new_semantic_entry |-> entry.id,
                      concept |-> entry.concept])])

\* a cycle that counts and prunes by scores taken after its semantic writes
RunOutcomeRescored(eps, ents, clock) ==
  LET first     == [i \in 1..Len(eps) |-> Score(eps[i], ents, eps, clock)]
      done      == Consolidate(SelectAction(first, "consolidate"), eps,
                               [entries |-> ents, consolidated |-> <<>>])
      scores    == [i \in 1..Len(eps) |-> Score(eps[i], done.entries, eps, clock)]
      to_prune  == SelectAction(scores, "prune")
      pruned_ids == {to_prune[i].episode_id : i \in 1..Len(to_prune)}
      gone      == SelectSeq(eps, LAMBDA e : e.id \in pruned_ids)
  IN [episodes |-> SelectSeq(eps, LAMBDA e : e.id \notin pruned_ids),
      entries  |-> done.entries,
      event    |-> [kind |-> "run",
                    timestamp |-> clock,
                    total_scored |-> Len(scores),
                    consolidated |-> Len(done.consolidated),
                    pruned |-> Len(gone),
                    retained |-> Len(SelectAction(scores, "retain")),
                    details |-> [consolidated |-> done.consolidated,
                                 pruned |-> [i \in 1..Len(gone) |-> gone[i].id]]]]

\* ConsolidationEngine.run: the new stores and the event
RunOutcome(eps, ents, clock) ==
  LET scores    == [i \in 1..Len(eps) |-> Score(eps[i], ents, eps, clock)]
      done      == Consolidate(SelectAction(scores, "consolidate"), eps,
                               [entries |-> ents, consolidated |-> <<>>])
      to_prune  == SelectAction(scores, "prune")
      pruned_ids == {to_prune[i].episode_id : i \in 1..Len(to_prune)}
      gone      == SelectSeq(eps, LAMBDA e : e.id \in pruned_ids)
  IN [episodes |-> SelectSeq(eps, LAMBDA e : e.id \notin pruned_ids),
      entries  |-> done.entries,
      event    |-> [kind |-> "run",
                    timestamp |-> clock,
                    total_scored |-> Len(scores),
                    consolidated |-> Len(done.consolidated),
                    pruned |-> Len(gone),
                    retained |-> Len(SelectAction(scores, "retain")),
                    details |-> [consolidated |-> done.consolidated,
                                 pruned |-> [i \in 1..Len(gone) |-> gone[i].id]]]]

\* sorted(scores, key=total_score, reverse=True), stable
RECURSIVE InsertByTotal(_, _)
InsertByTotal(sorted, sc) ==
  IF sorted = <<>> THEN <<sc>>
  ELSE IF sc.total_score > Head(sorted).total_score
    THEN <<sc>> \o sorted
    ELSE <<Head(sorted)>> \o InsertByTotal(Tail(sorted), sc)

\* the report left in store order
KeepStoreOrder(scores) == scores

RECURSIVE SortByTotal(_)
SortByTotal(scores) ==
  IF scores = <<>> THEN <<>>
  ELSE InsertByTotal(SortByTotal(SubSeq(scores, 1, Len(scores) - 1)),
                     scores[Len(scores)])

\* ConsolidationEngine.get_score_report
ScoreReport(eps, ents, clock) ==
  SortByTotal([i \in 1..Len(eps) |->
                 [score  |-> Score(eps[i], ents, eps, clock),
                  total_score |-> Score(eps[i], ents, eps, clock).total_score,
                  source |-> Take(eps[i].source, ReportSourceLen)]])

\* no run call is in progress
IdleFrame == [pc |-> "idle"]

\* regulate has not been called
NoRegulation == [kind |-> "none"]

(***************************************************************************)
(* The store model: seeds, inputs and calls                                *)
(***************************************************************************)
MaxStoreOps == 3
MaxNow      == 1
MaxCycles   == 5
MaxCycleEpisodes == 3
MaxStored   == 4

T1 == <<"t", "1">>
T2 == <<"t", "2">>

\* seed episodes: one that scores low, one that scores high, one in between
Weak(n)   == Episode(EpId(n), Iso(-9), <<"s">>, <<"c">>, <<>>, 1, 0, 0)
Strong(n) == Episode(EpId(n), Iso(0), <<"s">>, <<"c">>, <<T1, T2>>, 5, 10, 7)
Mid(n)    == Episode(EpId(n), Iso(-3), <<"s">>, <<"c">>, <<T1>>, 3, 0, 1)

\* an episode that is retained today and scores as prune ten days later
Fading(n) == Episode(EpId(n), Iso(-1), <<"s">>, <<"c">>, <<>>, 1, 0, 0)
\* an often retrieved episode whose timestamp lies 30 days ahead
Future(n) == Episode(EpId(n), Iso(3), <<"s">>, <<"c">>, <<T1, T2>>, 5, 10, 15)

\* two episodes on the same subject whose content names their tags: both
\* score as consolidate while the semantic store does not cover the tags,
\* and the second scores as retain once it does
Twin(n) == Episode(EpId(n), Iso(0), <<"s">>, T1 \o <<" ">> \o T2, <<T1, T2>>, 5, 10, 7)
Echo(n) == Episode(EpId(n), Iso(0), <<"s">>, T1 \o <<" ">> \o T2, <<T1, T2>>, 3, 0, 7)

\* seed stores: the ids are ep_001..ep_n and sem_001..sem_n
SeedStores ==
  { [episodes |-> <<>>, entries |-> <<>>],
    [episodes |-> <<Weak(1)>>, entries |-> <<>>],
    [episodes |-> <<Weak(1), Strong(2)>>, entries |-> <<>>],
    [episodes |-> <<Weak(1), Fading(2)>>, entries |-> <<>>],
    [episodes |-> <<Future(1)>>, entries |-> <<>>],
    [episodes |-> <<Twin(1), Echo(2)>>, entries |-> <<>>],
    [episodes |-> <<Strong(1), Mid(2), Weak(3)>>,
     entries  |-> <<SemanticEntry(SemId(1), <<"k">>, T1, <<>>, 900)>>] }

AddContents   == { <<"c">> }
AddSources    == { <<"s">> }
AddTags       == { <<>>, <<T1>> }
AddImportance == { 1 }
SearchQueries == { T1, <<"C", "?">> }

EntryConcepts == { <<"k">> }
EntryContents == { T1 \o <<" ">> \o T2 }
EntrySources  == { <<EpId(1)>> }
EntryConfidences == { 900 }

NoStoreResult == [kind |-> "none"]
EmptyAliases  == [k \in {} |-> <<>>]

\* one call of EpisodicStore.add_episode
AddEpisode(content, source, tags, importance) ==
  /\ storeOps < MaxStoreOps
  /\ LET ep == NewEpisode(Len(episodes), content, source, tags, importance, now)
     IN /\ episodes' = Append(episodes, ep)
        /\ storeResult' = [kind |-> "added", episode |-> ep]
        /\ issuedIds' = Append(issuedIds, ep.id)
        /\ added' = added \cup {[episode |-> ep,
                                  midcycle |-> run_frame.pc # "idle"]}
  /\ storeOps' = storeOps + 1
  /\ UNCHANGED <<entries, alias_map, now, consolidation_history, run_frame>>
  /\ UNCHANGED <<bufVars, loopVars, scVars, arbVars, outVars>>

\* one call of DualStore.search
Search(query) ==
  /\ storeOps < MaxStoreOps
  /\ episodes' = IncrementAll(episodes,
                   Take(EpisodicSearch(episodes, query, alias_map), TopRetrieved))
  /\ storeResult' = SearchResult(episodes, entries, alias_map, query)
  /\ storeOps' = storeOps + 1
  /\ UNCHANGED <<entries, alias_map, now, consolidation_history, issuedIds>>
  /\ UNCHANGED <<bufVars, loopVars, scVars, arbVars, raceVars, outVars>>

\* a cycle that returns its event without appending it to the history
RunUnlogged ==
  /\ storeOps < MaxStoreOps
  /\ LET out == RunOutcome(episodes, entries, now)
     IN /\ episodes' = out.episodes
        /\ entries' = out.entries
        /\ storeResult' = out.event
  /\ storeOps' = storeOps + 1
  /\ UNCHANGED <<alias_map, now, issuedIds, consolidation_history>>
  /\ UNCHANGED <<bufVars, loopVars, scVars, arbVars, raceVars, outVars>>

\* the exception that leaves a call when scoring an episode raises
Raised == [kind |-> "raised", error |-> "TypeError"]

\* the scoring loop of run and get_score_report raises on some episode
ScoringRaises(eps) == \E i \in 1..Len(eps) : RecencyRaises(eps[i])

\* one call of ConsolidationEngine.run; every episode is scored before the
\* stores are touched
RunWithin(limit) ==
  /\ storeOps < limit
  /\ IF ScoringRaises(episodes)
       THEN /\ storeResult' = Raised
            /\ UNCHANGED <<episodes, entries, consolidation_history>>
       ELSE LET out == RunOutcome(episodes, entries, now)
            IN /\ episodes' = out.episodes
               /\ entries' = out.entries
               /\ consolidation_history' = Append(consolidation_history, out.event)
               /\ storeResult' = out.event
  /\ storeOps' = storeOps + 1
  /\ UNCHANGED <<alias_map, now, issuedIds>>
  /\ UNCHANGED <<bufVars, loopVars, scVars, arbVars, raceVars, outVars>>

\* one call of ConsolidationEngine.run among the calls of the store model
Run == RunWithin(MaxStoreOps)

\* one call of ConsolidationEngine.run in a series of consecutive cycles
Cycle == RunWithin(MaxCycles)

\* one call of ConsolidationEngine.get_score_report
GetScoreReport ==
  /\ storeOps < MaxStoreOps
  /\ storeResult' = IF ScoringRaises(episodes) THEN Raised
                    ELSE [kind |-> "report",
                          scores |-> ScoreReport(episodes, entries, now)]
  /\ storeOps' = storeOps + 1
  /\ UNCHANGED <<episodes, entries, alias_map, now, consolidation_history, issuedIds>>
  /\ UNCHANGED <<bufVars, loopVars, scVars, arbVars, raceVars, outVars>>

\* one call of SaliencyScorer.score on the stored episode at position i
ScoreStored(i) ==
  /\ storeOps < MaxStoreOps
  /\ i \in 1..Len(episodes)
  /\ storeResult' = IF RecencyRaises(episodes[i]) THEN Raised
                    ELSE [kind |-> "score", position |-> i,
                          score |-> Score(episodes[i], entries, episodes, now)]
  /\ storeOps' = storeOps + 1
  /\ UNCHANGED <<episodes, entries, alias_map, now, consolidation_history, issuedIds>>
  /\ UNCHANGED <<bufVars, loopVars, scVars, arbVars, raceVars, outVars>>

\* one call of SemanticStore.add_entry from outside the engine
AddEntry(concept, content, source_episodes, confidence) ==
  /\ storeOps < MaxStoreOps
  /\ LET entry == NewEntry(Len(entries), concept, content, source_episodes, confidence)
     IN /\ entries' = Append(entries, entry)
        /\ storeResult' = [kind |-> "entry_added", entry |-> entry]
  /\ storeOps' = storeOps + 1
  /\ UNCHANGED <<episodes, alias_map, now, consolidation_history, issuedIds>>
  /\ UNCHANGED <<bufVars, loopVars, scVars, arbVars, raceVars, outVars>>

\* ten days pass
Tick ==
  /\ now < MaxNow
  /\ now' = now + 1
  /\ UNCHANGED <<episodes, entries, alias_map, consolidation_history,
                 storeResult, issuedIds, storeOps>>
  /\ UNCHANGED <<bufVars, loopVars, scVars, arbVars, raceVars, outVars>>

\* ---- ConsolidationEngine.run taken statement by statement, so that other
\* calls can run between its statements (nothing in the source locks the
\* stores)
\* consolidation_engine.py:147-184: every episode is scored and the
\* consolidate-group is written to the semantic store
RunScore ==
  /\ storeOps < MaxStoreOps
  /\ run_frame.pc = "idle"
  /\ ~ScoringRaises(episodes)
  /\ LET scores == [i \in 1..Len(episodes) |->
                      Score(episodes[i], entries, episodes, now)]
         done   == Consolidate(SelectAction(scores, "consolidate"), episodes,
                               [entries |-> entries, consolidated |-> <<>>])
     IN /\ entries' = done.entries
        /\ run_frame' = [pc |-> "scored", scores |-> scores,
                         consolidated |-> done.consolidated]
  /\ UNCHANGED <<episodes, alias_map, now, consolidation_history, storeResult,
                 issuedIds, storeOps, added>>
  /\ UNCHANGED <<bufVars, loopVars, scVars, arbVars, outVars>>

\* consolidation_engine.py:186-194: the loop over the episodes the store
\* holds now fills pruned_episodes and remaining_episodes
RunFilter ==
  /\ run_frame.pc = "scored"
  /\ LET to_prune   == SelectAction(run_frame.scores, "prune")
         pruned_ids == {to_prune[i].episode_id : i \in 1..Len(to_prune)}
         gone       == SelectSeq(episodes, LAMBDA e : e.id \in pruned_ids)
     IN run_frame' = [pc |-> "filtered", scores |-> run_frame.scores,
                      consolidated |-> run_frame.consolidated,
                      pruned_episodes |-> [i \in 1..Len(gone) |-> gone[i].id],
                      remaining_episodes |->
                        SelectSeq(episodes, LAMBDA e : e.id \notin pruned_ids)]
  /\ UNCHANGED <<storeVars, added>>
  /\ UNCHANGED <<bufVars, loopVars, scVars, arbVars, outVars>>

\* consolidation_engine.py:195-211: the store's list is replaced by
\* remaining_episodes, the event is logged and returned
RunAssign ==
  /\ run_frame.pc = "filtered"
  /\ episodes' = run_frame.remaining_episodes
  /\ LET event == [kind |-> "run",
                   timestamp |-> now,
                   total_scored |-> Len(run_frame.scores),
                   consolidated |-> Len(run_frame.consolidated),
                   pruned |-> Len(run_frame.pruned_episodes),
                   retained |-> Len(SelectAction(run_frame.scores, "retain")),
                   details |-> [consolidated |-> run_frame.consolidated,
                                pruned |-> run_frame.pruned_episodes]]
     IN /\ consolidation_history' = Append(consolidation_history, event)
        /\ storeResult' = event
  /\ run_frame' = IdleFrame
  /\ storeOps' = storeOps + 1
  /\ UNCHANGED <<entries, alias_map, now, issuedIds, added>>
  /\ UNCHANGED <<bufVars, loopVars, scVars, arbVars, outVars>>

\* stores loaded from files whose episodes carry every kind of timestamp
Stamped(n, timestamp) ==
  Episode(EpId(n), timestamp, <<"s">>, <<"c">>, <<>>, 3, 0, 0)

StampSeeds ==
  { <<Stamped(1, Missing)>>,
    <<Stamped(1, Malformed), Stamped(2, Iso(0))>>,
    <<Stamped(1, Iso(-3)), Stamped(2, NonString)>>,
    <<Stamped(1, Missing), Stamped(2, Malformed), Stamped(3, Iso(-9))>>,
    <<Stamped(1, NonString)>> }

(***************************************************************************)
(* The search model: TemporaryBinding and DualStore.search over stores     *)
(* that hold enough records for the top-3 and top-5 cuts                   *)
(***************************************************************************)
\* a binding keyed by the term as typed
WithAliasAsTyped(aliases, term, meaning) ==
  [k \in DOMAIN aliases \cup {term} |->
     IF k = term THEN meaning ELSE aliases[k]]

\* TemporaryBinding.add_alias: alias_map[term.lower()] = meaning
WithAlias(aliases, term, meaning) ==
  [k \in DOMAIN aliases \cup {Lower(term)} |->
     IF k = Lower(term) THEN meaning ELSE aliases[k]]

\* TemporaryBinding.remove_alias: del alias_map[term.lower()] when bound
WithoutAlias(aliases, term) ==
  [k \in DOMAIN aliases \ {Lower(term)} |-> aliases[k]]

\* the example of the /alias command: the term, its meaning, and the first
\* six characters of the meaning
Bottleneck == <<"ping", "jing">>
WorkingMemoryLimit == <<"gong", "zuo", "ji", "yi", "xian", "zhi">>
PositiveConstraint ==
  WorkingMemoryLimit \o <<"dai", "lai", "de", "zheng", "mian", "yue", "shu">>

\* a term bound to a meaning of two words
Wm == <<"W", "m">>
TwoWords == <<"A", " ", "b">>

\* a stored episode with the given content and tags
Note(n, content, tags) == Episode(EpId(n), Iso(0), <<"s">>, content, tags, 3, 0, 0)

SearchSeeds ==
  { [episodes |-> <<Note(1, WorkingMemoryLimit \o <<"x">>, <<>>),
                    Note(2, <<"b">>, <<>>),
                    Note(3, PositiveConstraint, <<>>)>>,
     entries  |-> <<SemanticEntry(SemId(1), <<"k">>, WorkingMemoryLimit, <<>>, 900),
                    SemanticEntry(SemId(2), <<"k">>, <<"a">>, <<>>, 900)>>],
    [episodes |-> <<Note(1, <<"c">>, <<>>), Note(2, <<"c">>, <<T1>>),
                    Note(3, <<"c">>, <<>>), Note(4, <<"c">>, <<T1>>),
                    Note(5, <<"c">>, <<>>), Note(6, <<"c">>, <<T1>>)>>,
     entries  |-> <<SemanticEntry(SemId(1), <<"c">>, <<"x">>, <<>>, 900),
                    SemanticEntry(SemId(2), <<"c">>, T1, <<>>, 900),
                    SemanticEntry(SemId(3), <<"c">>, <<"x">>, <<>>, 900),
                    SemanticEntry(SemId(4), <<"c">>, T1, <<>>, 900)>>],
    [episodes |-> <<Note(1, <<"c">>, <<>>), Note(2, <<"c">>, <<<<"z">>>>)>>,
     entries  |-> <<SemanticEntry(SemId(1), <<"k">>, T1, <<>>, 900)>>] }

AliasTerms    == { Bottleneck, Wm, <<"w", "M">> }
AliasMeanings == { PositiveConstraint, TwoWords, T1 }
BindQueries ==
  { Bottleneck, <<"w", "m", "?">>, <<"C", "?">>, <<"c", FwComma>> \o T1,
    <<"c", " ", "q", " ", "y", " ", "z">>, <<"z">>, <<"c", " ", "w", "m">> }

\* one call of TemporaryBinding.add_alias
AddAlias(term, meaning) ==
  /\ storeOps < MaxStoreOps
  /\ alias_map' = WithAlias(alias_map, term, meaning)
  /\ storeResult' = [kind |-> "alias_added", term |-> term, meaning |-> meaning]
  /\ storeOps' = storeOps + 1
  /\ UNCHANGED <<episodes, entries, now, consolidation_history, issuedIds>>
  /\ UNCHANGED <<bufVars, loopVars, scVars, arbVars, raceVars, outVars>>

\* one call of TemporaryBinding.remove_alias
RemoveAlias(term) ==
  /\ storeOps < MaxStoreOps
  /\ alias_map' = WithoutAlias(alias_map, term)
  /\ storeResult' = [kind |-> IF Lower(term) \in DOMAIN alias_map
                                THEN "alias_removed" ELSE "alias_not_found",
                     term |-> term]
  /\ storeOps' = storeOps + 1
  /\ UNCHANGED <<episodes, entries, now, consolidation_history, issuedIds>>
  /\ UNCHANGED <<bufVars, loopVars, scVars, arbVars, raceVars, outVars>>

(***************************************************************************)
(* Layer 0: KnowledgeGraph and ArbitrationLayer                            *)
(* Triple: [subject, relation, object, confidence (hundredths)]            *)
(***************************************************************************)
HIGH_CONFIDENCE == 85
LOW_CONFIDENCE  == 50

Triple(subject, relation, object, confidence) ==
  [subject |-> subject, relation |-> relation, object |-> object,
   confidence |-> confidence]

\* the keys of KnowledgeGraph.index in insertion order: the lowercased
\* subjects, each at its first appearance
RECURSIVE IndexKeys(_)
IndexKeys(kg) ==
  IF kg = <<>> THEN <<>>
  ELSE LET before == IndexKeys(SubSeq(kg, 1, Len(kg) - 1))
           key    == Lower(kg[Len(kg)].subject)
       IN IF key \in SeqToSet(before) THEN before ELSE Append(before, key)

\* KnowledgeGraph.index[key]
Bucket(kg, key) == SelectSeq(kg, LAMBDA t : Lower(t.subject) = key)

\* the first loop of query: the buckets of the keys that contain the concept
\* or are contained in it
RECURSIVE SubjectHits(_, _, _)
SubjectHits(kg, keys, concept_lower) ==
  IF keys = <<>> THEN <<>>
  ELSE (IF IsSubstr(concept_lower, Head(keys)) \/ IsSubstr(Head(keys), concept_lower)
          THEN Bucket(kg, Head(keys)) ELSE <<>>)
       \o SubjectHits(kg, Tail(keys), concept_lower)

\* the second loop of query: triples whose object contains the concept and
\* that are not in the results yet
RECURSIVE ObjectHits(_, _, _)
ObjectHits(rest, results, concept_lower) ==
  IF rest = <<>> THEN results
  ELSE ObjectHits(Tail(rest),
         IF IsSubstr(concept_lower, Lower(Head(rest).object))
            /\ Head(rest) \notin SeqToSet(results)
           THEN Append(results, Head(rest)) ELSE results,
         concept_lower)

\* sorted(results, key=confidence, reverse=True), stable
RECURSIVE InsertByConfidence(_, _)
InsertByConfidence(sorted, t) ==
  IF sorted = <<>> THEN <<t>>
  ELSE IF t.confidence > Head(sorted).confidence THEN <<t>> \o sorted
  ELSE <<Head(sorted)>> \o InsertByConfidence(Tail(sorted), t)

RECURSIVE SortByConfidence(_)
SortByConfidence(ts) ==
  IF ts = <<>> THEN <<>>
  ELSE InsertByConfidence(SortByConfidence(SubSeq(ts, 1, Len(ts) - 1)), ts[Len(ts)])

\* KnowledgeGraph.query(concept), relation = None
Query(kg, concept) ==
  SortByConfidence(
    ObjectHits(kg, SubjectHits(kg, IndexKeys(kg), Lower(concept)), Lower(concept)))

\* KnowledgeGraph.get_max_confidence
MaxConfidence(results) ==
  IF results = <<>> THEN 0
  ELSE Max({results[i].confidence : i \in 1..Len(results)})

\* kg_results.extend(self.kg.query(concept)) for every concept
RECURSIVE QueryAll(_, _)
QueryAll(kg, concepts) ==
  IF concepts = <<>> THEN <<>>
  ELSE Query(kg, Head(concepts)) \o QueryAll(kg, Tail(concepts))

TripleKey(t) == <<t.subject, t.relation, t.object>>

\* the deduplication loop of arbitrate: the first hit of every key
RECURSIVE Deduplicate(_)
Deduplicate(results) ==
  IF results = <<>> THEN <<>>
  ELSE LET before == Deduplicate(SubSeq(results, 1, Len(results) - 1))
           last   == results[Len(results)]
       IN IF \E i \in 1..Len(before) : TripleKey(before[i]) = TripleKey(last)
            THEN before ELSE Append(before, last)

\* the known concepts of _extract_concepts, as a set
KnownConcepts(kg) ==
  {Lower(kg[i].subject) : i \in 1..Len(kg)} \cup {Lower(kg[i].object) : i \in 1..Len(kg)}

MinConceptLen == 2
MaxFallbackWords == 5

\* the known concepts found in the query
FoundConcepts(kg, query) ==
  {c \in KnownConcepts(kg) : IsSubstr(c, Lower(query)) /\ Len(c) > MinConceptLen}

\* the full-width enumeration comma of the source
FwPause == "fw;"

\* the fallback of _extract_concepts: the words longer than 2, at most 5
FallbackWords(query) ==
  LET kept  == SelectSeq(query, LAMBDA c : c \notin {FwQuestion, "?"})
      blank == [i \in 1..Len(kept) |->
                  IF kept[i] \in {FwComma, FwPause} THEN " " ELSE kept[i]]
  IN Take(SelectSeq(Split(blank), LAMBDA w : Len(w) > MinConceptLen),
          MaxFallbackWords)

\* the orders a set can be iterated in
Orderings(S) ==
  {f \in [1..Cardinality(S) -> S] : \A i, j \in 1..Cardinality(S) : i # j => f[i] # f[j]}

\* _extract_concepts: every list it can return (list(set(...)) has no fixed order)
ExtractConcepts(kg, query) ==
  IF FoundConcepts(kg, query) # {} THEN Orderings(FoundConcepts(kg, query))
  ELSE {FallbackWords(query)}

\* MockLLM.generate
Generate(query) ==
  [content |-> <<"LLM", ":">> \o query, source |-> "neural_track", confidence |-> 65]

TopTrace  == 5
TopListed == 5
TopQuoted == 3

\* the decision with `>` for `>=` at the high threshold
DecisionStrict(max_conf) ==
  IF max_conf > HIGH_CONFIDENCE THEN "kg_primary"
  ELSE IF max_conf >= LOW_CONFIDENCE THEN "hybrid"
  ELSE IF max_conf > 0 THEN "llm_primary_kg_ref"
  ELSE "llm_fallback"

\* step 2 of arbitrate: the branch taken
Decision(max_conf) ==
  IF max_conf >= HIGH_CONFIDENCE THEN "kg_primary"
  ELSE IF max_conf >= LOW_CONFIDENCE THEN "hybrid"
  ELSE IF max_conf > 0 THEN "llm_primary_kg_ref"
  ELSE "llm_fallback"

\* the response of each branch: the facts quoted and the fallback's content
Response(decision, kg_results, query) ==
  IF decision = "kg_primary"
    THEN [facts |-> Take(kg_results, TopListed), llm |-> <<>>]
  ELSE IF decision = "llm_fallback"
    THEN [facts |-> <<>>, llm |-> Generate(query).content]
  ELSE [facts |-> Take(kg_results, TopQuoted), llm |-> Generate(query).content]

\* the queries step 2 of arbitrate hands to llm.generate, with a call in
\* every branch
FallbackCallsAlways(decision, query) == <<query>>

\* the queries step 2 of arbitrate hands to llm.generate: one call in every
\* branch but kg_primary
FallbackCalls(decision, query) ==
  IF decision = "kg_primary" THEN <<>> ELSE <<query>>

\* ArbitrationLayer.arbitrate for a given concept list: the value returned
ArbitrateOutcome(kg, query, concepts) ==
  LET kg_results == Deduplicate(QueryAll(kg, concepts))
      max_conf   == MaxConfidence(kg_results)
  IN [kind |-> "arbitrated",
      decision |-> Decision(max_conf),
      response |-> Response(Decision(max_conf), kg_results, query),
      kg_hits |-> Len(kg_results),
      kg_max_confidence |-> max_conf,
      concepts_searched |-> concepts,
      trace |-> [kg_results |-> Take(kg_results, TopTrace)]]

\* ---- bounds and inputs of the arbitration model
MaxArbOps == 2

Cat == <<"c", "a", "t">>
Dog == <<"D", "o", "g">>
Fox == <<"f", "o", "x">>
Emu == <<"e", "m", "u">>
Pet == <<"p", "e", "t">>
Is  == <<"i", "s">>
Ai  == <<"A", "i">>

KnowledgeGraphs ==
  { <<>>,
    <<Triple(Cat, Is, Pet, 85), Triple(Dog, Is, Pet, 50), Triple(Fox, Is, Emu, 49)>>,
    <<Triple(Emu, Is, Pet, 0), Triple(Fox, Is, Cat, 84), Triple(Cat, Is, Pet, 90),
      Triple(Cat, Is, Pet, 30)>>,
    <<Triple(Ai, Is, Pet, 90), Triple(Cat, Is, Ai, 60)>> }

ArbQueries ==
  { Cat, <<"d", "o", "g", "?">>, Fox \o <<" ">> \o Dog, Emu,
    <<"a", "n", "t", "s", FwComma, "n", "o">>,
    <<"a", "i", " ", "n", "o", "w">> }

ArbConceptLists == { <<>>, <<Cat>>, <<Dog, Fox>>, <<Fox, Cat>>, <<Emu>> }

NoArbResult == [kind |-> "none"]

\* one call of ArbitrationLayer.arbitrate; explicit = FALSE stands for
\* concepts=None
Arbitrate(query, explicit, given) ==
  /\ arbOps < MaxArbOps
  /\ \E concepts \in (IF explicit THEN {given} ELSE ExtractConcepts(triples, query)) :
       /\ arbResult' = ArbitrateOutcome(triples, query, concepts)
       /\ llmCalls' = llmCalls \o FallbackCalls(arbResult'.decision, query)
  /\ arbOps' = arbOps + 1
  /\ UNCHANGED triples
  /\ UNCHANGED <<bufVars, loopVars, scVars, storeVars, raceVars, outVars>>

\* ---- inputs of the scorer model: episodes that satisfy the data model
ScoreTimestamps == {Iso(3), Iso(0), Iso(-3), Iso(-9), Iso(-12), Malformed}
ScoreTags       == { <<>>, <<<<"T", "1">>>>, <<<<"t", "1">>, <<"t", "2">>>> }
ScoreImportance == {1, 3, 5}
ScoreValence    == {-10, 0, 5, 10}
ScoreRetrievals == {0, 1, 7, 15, 20}

ScoreEpisodes ==
  { Episode(EpId(1), ts, <<"s">>, <<"c">>, tags, imp, val, rc) :
      ts \in ScoreTimestamps, tags \in ScoreTags, imp \in ScoreImportance,
      val \in ScoreValence, rc \in ScoreRetrievals }

\* a peer episode that shares the tag t1
Peer(n) == Episode(EpId(n), Iso(0), <<"s">>, <<"c">>, <<<<"t", "1">>>>, 3, 0, 0)

ScorePeers ==
  { <<>>, <<Peer(2), Peer(3)>>, <<Peer(2), Peer(3), Peer(4), Peer(5), Peer(6)>> }

ScoreEntryLists ==
  { <<>>,
    <<SemanticEntry(SemId(1), <<"T", "1">>, <<"x">>, <<>>, 900)>> }

NoScore == [action |-> "none"]

\* one call of SaliencyScorer.score
ScoreEpisode ==
  /\ scResult = NoScore
  /\ scResult' = Score(scEpisode, scEntries, scAll, scNow)
  /\ UNCHANGED <<scEpisode, scEntries, scAll, scNow, bufVars, loopVars, storeVars, arbVars, raceVars, outVars>>

(***************************************************************************)
(* Layer 3: CognitiveLoadMonitor and OutputRegulator                       *)
(***************************************************************************)
\* the full-width full stop and exclamation mark of the source
FwStop == "fw."
FwBang == "fw!"

\* density_threshold = 0.5 as a fraction, and max_new_concepts
DensityNum     == 1
DensityDen     == 2
MaxNewConcepts == 4
\* len(w) > 3
MinNewWordLen  == 3
\* _suggest_scaffolding: new_concepts > 6, new_concepts > 4, and the 3 of
\* (new_concepts + 2) // 3 and new_concepts - 3
SegmentAbove   == 6
AnalogyAbove   == 4
PerSegment     == 3

\* the pieces of s between the characters of seps
RECURSIVE SplitOn(_, _)
SplitOn(s, seps) ==
  IF \A i \in 1..Len(s) : s[i] \notin seps THEN <<s>>
  ELSE LET stop == Min({i \in 1..Len(s) : s[i] \in seps})
       IN <<SubSeq(s, 1, stop - 1)>> \o SplitOn(SubSeq(s, stop + 1, Len(s)), seps)

\* str.strip()
RECURSIVE Strip(_)
Strip(s) ==
  IF s = <<>> THEN <<>>
  ELSE IF Head(s) \in {" ", "\n"} THEN Strip(Tail(s))
  ELSE IF s[Len(s)] \in {" ", "\n"} THEN Strip(SubSeq(s, 1, Len(s) - 1))
  ELSE s

\* CognitiveLoadMonitor._split_sentences: re.split on runs of
\* [。！？.!?\n], every piece stripped, the empty ones dropped
SplitSentences(text) ==
  LET pieces == SplitOn(text, {FwStop, FwBang, FwQuestion, ".", "!", "?", "\n"})
  IN SelectSeq([i \in 1..Len(pieces) |-> Strip(pieces[i])], LAMBDA p : p # <<>>)

\* set(text.lower().replace("，", " ").replace("。", " ").split())
WordsOf(text) ==
  SeqToSet(Split([i \in 1..Len(text) |->
                    IF text[i] \in {FwComma, FwStop, "\n"} THEN " "
                    ELSE LowerChar(text[i])]))

\* the words longer than 3 characters that are not known
PotentialNew(text, known) ==
  {w \in WordsOf(text) :
     Len(w) > MinNewWordLen /\ w \notin {Lower(known[i]) : i \in 1..Len(known)}}

\* CognitiveLoadMonitor._suggest_scaffolding
SuggestScaffolding(new_concepts) ==
  IF new_concepts > SegmentAbove
    THEN [strategy |-> "segments",
          recommended_segments |-> (new_concepts + 2) \div PerSegment]
  ELSE IF new_concepts > AnalogyAbove
    THEN [strategy |-> "analogy", recommended_analogies |-> new_concepts - PerSegment]
  ELSE [strategy |-> "summary"]

\* CognitiveLoadMonitor.assess (density is compared as a fraction; the
\* rounded density and the message are left out)
Assess(text, known) ==
  LET sentence_count    == Len(SplitSentences(text))
      new_concept_count == Cardinality(PotentialNew(text, known))
      overloaded ==
        \/ new_concept_count * DensityDen > DensityNum * Max({sentence_count, 1})
        \/ new_concept_count > MaxNewConcepts
  IN [sentence_count |-> sentence_count,
      new_concept_count |-> new_concept_count,
      overloaded |-> overloaded,
      suggestion |-> IF overloaded THEN SuggestScaffolding(new_concept_count)
                     ELSE [strategy |-> "none"]]

\* "\n\n---\n\n" between the parts, and the two markers appended otherwise
PartSeparator == <<"\n", "\n", "-", "-", "-", "\n", "\n">>
AnalogyMarker ==
  <<"\n", "\n", "bulb", " ", "[", "jian", "yi", "ci", "chu", "cha", "ru", "lei",
    "bi", "yi", "jiang", "di", "ren", "zhi", "fu", "he", "]">>
SummaryMarker ==
  <<"\n", "\n", "pin", " ", "[", "jian", "yi", "zai", "ci", "tian", "jia", "yi",
    "ju", "hua", "zhai", "yao", "]">>

\* for i in range(0, len(sentences), chunk_size): "。".join(chunk) + "。"
RECURSIVE Parts(_, _)
Parts(sentences, chunk_size) ==
  IF sentences = <<>> THEN <<>>
  ELSE <<Join(Take(sentences, chunk_size), <<FwStop>>) \o <<FwStop>>>>
       \o Parts(SubSeq(sentences, chunk_size + 1, Len(sentences)), chunk_size)

\* OutputRegulator._apply_scaffolding
ApplyScaffolding(text, assessment) ==
  IF assessment.suggestion.strategy = "segments"
    THEN LET sentences  == SplitSentences(text)
             chunk_size == Max({Len(sentences)
                                  \div assessment.suggestion.recommended_segments, 1})
         IN Join(Parts(sentences, chunk_size), PartSeparator)
  ELSE IF assessment.suggestion.strategy = "analogy" THEN text \o AnalogyMarker
  ELSE IF assessment.suggestion.strategy = "summary" THEN text \o SummaryMarker
  ELSE text

\* OutputRegulator.regulate: the value returned
RegulateOutcome(text, known) ==
  LET assessment == Assess(text, known)
  IN [kind |-> "regulated",
      original_response  |-> text,
      regulated_response |-> IF assessment.overloaded
                               THEN ApplyScaffolding(text, assessment)
                               ELSE text,
      assessment    |-> assessment,
      was_regulated |-> assessment.overloaded]

\* ---- bounds and inputs of the output model
MaxSentences        == 4
MaxWordsPerSentence == 4
MaxWords            == 9

Digits == <<"1", "2", "3", "4", "5", "6", "7", "8", "9">>
\* the k-th long word of a response, and a short one
LongWord(k) == <<"N", "e", "w", Digits[k]>>
ShortWord   == <<"i", "t">>

RECURSIVE SumSeq(_)
SumSeq(ns) == IF ns = <<>> THEN 0 ELSE Head(ns) + SumSeq(Tail(ns))

\* a response: the sentence i holds layout[i] long words after a short one,
\* and ends with the terminator
RECURSIVE ResponseText(_, _, _)
ResponseText(layout, first, terminator) ==
  IF layout = <<>> THEN <<>>
  ELSE ShortWord
       \o Join([k \in 1..Head(layout) |-> <<" ">> \o LongWord(first + k - 1)], <<>>)
       \o <<terminator>>
       \o (IF Len(layout) > 1 THEN <<" ">> ELSE <<>>)
       \o ResponseText(Tail(layout), first + Head(layout), terminator)

Layouts ==
  {l \in UNION {[1..n -> 0..MaxWordsPerSentence] : n \in 1..MaxSentences} :
     SumSeq(l) <= MaxWords}

OutTexts ==
  {<<>>} \cup {ResponseText(l, 1, t) : l \in Layouts, t \in {FwStop, "."}}
OutKnownLists ==
  { <<>>, <<<<"n", "e", "w", "1">>>>, <<<<"N", "E", "W", "2">>, ShortWord>> }

\* one call of OutputRegulator.regulate
Regulate ==
  /\ outResult = NoRegulation
  /\ outResult' = RegulateOutcome(outText, outKnown)
  /\ UNCHANGED <<outText, outKnown>>
  /\ UNCHANGED <<bufVars, loopVars, scVars, storeVars, arbVars, raceVars>>

(***************************************************************************)
(* Specifications                                                          *)
(***************************************************************************)
\* the state after AttentionBuffer(capacity), for every capacity modelled
InitBuf ==
  /\ capacity \in 1..MaxCapacity
  /\ buffer = <<>>
  /\ compression_log = <<>>
  /\ bufResult = NoResult
  /\ bufOps = 0
  /\ cycle_threshold = 1
  /\ cycling = EmptyMap
  /\ loopResult = NoLoopResult
  /\ encounters = [k \in LoopKeys |-> <<>>]
  /\ loopOps = 0
  /\ scEpisode = Peer(1)
  /\ scEntries = <<>>
  /\ scAll = <<>>
  /\ scNow = 0
  /\ scResult = NoScore
  /\ episodes = <<>>
  /\ entries = <<>>
  /\ alias_map = EmptyAliases
  /\ now = 0
  /\ consolidation_history = <<>>
  /\ storeResult = NoStoreResult
  /\ issuedIds = <<>>
  /\ storeOps = 0
  /\ triples = <<>>
  /\ arbResult = NoArbResult
  /\ llmCalls = <<>>
  /\ arbOps = 0
  /\ run_frame = IdleFrame
  /\ added = {}
  /\ outText = <<>>
  /\ outKnown = <<>>
  /\ outResult = NoRegulation

NextBuf ==
  \/ \E c \in BufConcepts, x \in BufContents, s \in BufSources : Add(c, x, s)
  \/ GetActiveContext

SpecBuf == InitBuf /\ [][NextBuf]_vars

\* the state after PhonologicalLoop(cycle_threshold), for every threshold modelled
InitLoop ==
  /\ cycle_threshold \in 1..MaxThreshold
  /\ cycling = EmptyMap
  /\ loopResult = NoLoopResult
  /\ encounters = [k \in LoopKeys |-> <<>>]
  /\ loopOps = 0
  /\ capacity = 1
  /\ buffer = <<>>
  /\ compression_log = <<>>
  /\ bufResult = NoResult
  /\ bufOps = 0
  /\ scEpisode = Peer(1)
  /\ scEntries = <<>>
  /\ scAll = <<>>
  /\ scNow = 0
  /\ scResult = NoScore
  /\ episodes = <<>>
  /\ entries = <<>>
  /\ alias_map = EmptyAliases
  /\ now = 0
  /\ consolidation_history = <<>>
  /\ storeResult = NoStoreResult
  /\ issuedIds = <<>>
  /\ storeOps = 0
  /\ triples = <<>>
  /\ arbResult = NoArbResult
  /\ llmCalls = <<>>
  /\ arbOps = 0
  /\ run_frame = IdleFrame
  /\ added = {}
  /\ outText = <<>>
  /\ outKnown = <<>>
  /\ outResult = NoRegulation

NextLoop == \E c \in LoopConcepts : Encounter(c)

SpecLoop == InitLoop /\ [][NextLoop]_vars

\* every argument tuple of the scorer model, before the call
InitScore ==
  /\ scEpisode \in ScoreEpisodes
  /\ scEntries \in ScoreEntryLists
  /\ \E peers \in ScorePeers : scAll = <<scEpisode>> \o peers
  /\ scNow = 0
  /\ scResult = NoScore
  /\ capacity = 1
  /\ buffer = <<>>
  /\ compression_log = <<>>
  /\ bufResult = NoResult
  /\ bufOps = 0
  /\ cycle_threshold = 1
  /\ cycling = EmptyMap
  /\ loopResult = NoLoopResult
  /\ encounters = [k \in LoopKeys |-> <<>>]
  /\ loopOps = 0
  /\ episodes = <<>>
  /\ entries = <<>>
  /\ alias_map = EmptyAliases
  /\ now = 0
  /\ consolidation_history = <<>>
  /\ storeResult = NoStoreResult
  /\ issuedIds = <<>>
  /\ storeOps = 0
  /\ triples = <<>>
  /\ arbResult = NoArbResult
  /\ llmCalls = <<>>
  /\ arbOps = 0
  /\ run_frame = IdleFrame
  /\ added = {}
  /\ outText = <<>>
  /\ outKnown = <<>>
  /\ outResult = NoRegulation

NextScore == ScoreEpisode

SpecScore == InitScore /\ [][NextScore]_vars

\* the stores as loaded from a seed, nothing called yet
InitStore ==
  /\ \E seed \in SeedStores :
       /\ episodes = seed.episodes
       /\ entries = seed.entries
       /\ issuedIds = [i \in 1..Len(seed.episodes) |-> seed.episodes[i].id]
  /\ alias_map = EmptyAliases
  /\ now = 0
  /\ consolidation_history = <<>>
  /\ storeResult = NoStoreResult
  /\ storeOps = 0
  /\ capacity = 1
  /\ buffer = <<>>
  /\ compression_log = <<>>
  /\ bufResult = NoResult
  /\ bufOps = 0
  /\ cycle_threshold = 1
  /\ cycling = EmptyMap
  /\ loopResult = NoLoopResult
  /\ encounters = [k \in LoopKeys |-> <<>>]
  /\ loopOps = 0
  /\ scEpisode = Peer(1)
  /\ scEntries = <<>>
  /\ scAll = <<>>
  /\ scNow = 0
  /\ scResult = NoScore
  /\ triples = <<>>
  /\ arbResult = NoArbResult
  /\ llmCalls = <<>>
  /\ arbOps = 0
  /\ run_frame = IdleFrame
  /\ added = {}
  /\ outText = <<>>
  /\ outKnown = <<>>
  /\ outResult = NoRegulation

NextStore ==
  \/ \E c \in AddContents, src \in AddSources, tg \in AddTags, imp \in AddImportance :
       AddEpisode(c, src, tg, imp)
  \/ \E q \in SearchQueries : Search(q)
  \/ \E k \in EntryConcepts, c \in EntryContents, src \in EntrySources,
        cf \in EntryConfidences : AddEntry(k, c, src, cf)
  \/ Run
  \/ GetScoreReport
  \/ Tick

SpecStore == InitStore /\ [][NextStore]_vars

\* ---- consecutive cycles: stores as loaded, the clock held, run the only call
\* an old episode of low importance, and a recent one with a tag that no
\* extracted pattern holds
Faint(n)  == Episode(EpId(n), Iso(-12), <<"s">>, <<"c">>, <<T1, T2>>, 1, 0, 0)
Dimming(n) == Episode(EpId(n), Iso(-3), <<"s">>, <<"c">>, <<T1, <<"z">>>>, 1, 0, 0)

CycleShapes(n) == { Twin(n), Strong(n), Faint(n), Dimming(n) }

\* the episode lists of length k, ids in file order
RECURSIVE CycleLists(_)
CycleLists(k) ==
  IF k = 0 THEN { <<>> }
  ELSE { Append(eps, ep) : eps \in CycleLists(k - 1), ep \in CycleShapes(k) }

CycleSeeds == UNION { CycleLists(k) : k \in 1..MaxCycleEpisodes }
CycleEntries == { <<>>, <<SemanticEntry(SemId(1), <<"k">>, T1, <<>>, 900)>> }

InitCycles ==
  /\ episodes \in CycleSeeds
  /\ entries \in CycleEntries
  /\ issuedIds = [i \in 1..Len(episodes) |-> episodes[i].id]
  /\ alias_map = EmptyAliases
  /\ now = 0
  /\ consolidation_history = <<>>
  /\ storeResult = NoStoreResult
  /\ storeOps = 0
  /\ capacity = 1
  /\ buffer = <<>>
  /\ compression_log = <<>>
  /\ bufResult = NoResult
  /\ bufOps = 0
  /\ cycle_threshold = 1
  /\ cycling = EmptyMap
  /\ loopResult = NoLoopResult
  /\ encounters = [k \in LoopKeys |-> <<>>]
  /\ loopOps = 0
  /\ scEpisode = Peer(1)
  /\ scEntries = <<>>
  /\ scAll = <<>>
  /\ scNow = 0
  /\ scResult = NoScore
  /\ triples = <<>>
  /\ arbResult = NoArbResult
  /\ llmCalls = <<>>
  /\ arbOps = 0
  /\ run_frame = IdleFrame
  /\ added = {}
  /\ outText = <<>>
  /\ outKnown = <<>>
  /\ outResult = NoRegulation

NextCycles == Cycle

\* a step of Cycle seen through the call counter alone: Cycle can be taken
\* exactly when the counter is below its bound, and it is the only step that
\* raises the counter
CycleDue == storeOps < MaxCycles /\ storeOps' = storeOps + 1

\* the caller runs cycle after cycle, and each call returns: its loops range
\* over the finite lists of the stores. Fairness is put on CycleDue, which
\* is enabled and taken exactly when Cycle is
SpecCycles == InitCycles /\ [][NextCycles]_vars /\ WF_storeOps(CycleDue)

\* the stores of the search model as loaded, no binding yet
InitSearch ==
  /\ \E seed \in SearchSeeds :
       /\ episodes = seed.episodes
       /\ entries = seed.entries
       /\ issuedIds = [i \in 1..Len(seed.episodes) |-> seed.episodes[i].id]
  /\ alias_map = EmptyAliases
  /\ now = 0
  /\ consolidation_history = <<>>
  /\ storeResult = NoStoreResult
  /\ storeOps = 0
  /\ capacity = 1
  /\ buffer = <<>>
  /\ compression_log = <<>>
  /\ bufResult = NoResult
  /\ bufOps = 0
  /\ cycle_threshold = 1
  /\ cycling = EmptyMap
  /\ loopResult = NoLoopResult
  /\ encounters = [k \in LoopKeys |-> <<>>]
  /\ loopOps = 0
  /\ scEpisode = Peer(1)
  /\ scEntries = <<>>
  /\ scAll = <<>>
  /\ scNow = 0
  /\ scResult = NoScore
  /\ triples = <<>>
  /\ arbResult = NoArbResult
  /\ llmCalls = <<>>
  /\ arbOps = 0
  /\ run_frame = IdleFrame
  /\ added = {}
  /\ outText = <<>>
  /\ outKnown = <<>>
  /\ outResult = NoRegulation

NextSearch ==
  \/ \E t \in AliasTerms, mg \in AliasMeanings : AddAlias(t, mg)
  \/ \E t \in AliasTerms : RemoveAlias(t)
  \/ \E q \in BindQueries : Search(q)

SpecSearch == InitSearch /\ [][NextSearch]_vars

\* stores whose episodes carry every kind of timestamp, no call made yet
InitStamp ==
  /\ episodes \in StampSeeds
  /\ entries = <<>>
  /\ issuedIds = [i \in 1..Len(episodes) |-> episodes[i].id]
  /\ alias_map = EmptyAliases
  /\ now = 0
  /\ consolidation_history = <<>>
  /\ storeResult = NoStoreResult
  /\ storeOps = 0
  /\ capacity = 1
  /\ buffer = <<>>
  /\ compression_log = <<>>
  /\ bufResult = NoResult
  /\ bufOps = 0
  /\ cycle_threshold = 1
  /\ cycling = EmptyMap
  /\ loopResult = NoLoopResult
  /\ encounters = [k \in LoopKeys |-> <<>>]
  /\ loopOps = 0
  /\ scEpisode = Peer(1)
  /\ scEntries = <<>>
  /\ scAll = <<>>
  /\ scNow = 0
  /\ scResult = NoScore
  /\ triples = <<>>
  /\ arbResult = NoArbResult
  /\ llmCalls = <<>>
  /\ arbOps = 0
  /\ run_frame = IdleFrame
  /\ added = {}
  /\ outText = <<>>
  /\ outKnown = <<>>
  /\ outResult = NoRegulation

NextStamp ==
  \/ \E i \in 1..MaxStored : ScoreStored(i)
  \/ GetScoreReport
  \/ Run
  \/ \E c \in AddContents, src \in AddSources, tg \in AddTags, imp \in AddImportance :
       AddEpisode(c, src, tg, imp)
  \/ Tick

SpecStamp == InitStamp /\ [][NextStamp]_vars

\* the seed stores, no call made yet and no run in progress
InitRace ==
  /\ \E seed \in SeedStores :
       /\ episodes = seed.episodes
       /\ entries = seed.entries
       /\ issuedIds = [i \in 1..Len(seed.episodes) |-> seed.episodes[i].id]
  /\ alias_map = EmptyAliases
  /\ now = 0
  /\ consolidation_history = <<>>
  /\ storeResult = NoStoreResult
  /\ storeOps = 0
  /\ capacity = 1
  /\ buffer = <<>>
  /\ compression_log = <<>>
  /\ bufResult = NoResult
  /\ bufOps = 0
  /\ cycle_threshold = 1
  /\ cycling = EmptyMap
  /\ loopResult = NoLoopResult
  /\ encounters = [k \in LoopKeys |-> <<>>]
  /\ loopOps = 0
  /\ scEpisode = Peer(1)
  /\ scEntries = <<>>
  /\ scAll = <<>>
  /\ scNow = 0
  /\ scResult = NoScore
  /\ triples = <<>>
  /\ arbResult = NoArbResult
  /\ llmCalls = <<>>
  /\ arbOps = 0
  /\ run_frame = IdleFrame
  /\ added = {}
  /\ outText = <<>>
  /\ outKnown = <<>>
  /\ outResult = NoRegulation

\* add_episode can run between any two statements of run; a cycle takes far
\* less than the ten days of one clock step
NextRace ==
  \/ RunScore
  \/ RunFilter
  \/ RunAssign
  \/ \E c \in AddContents, src \in AddSources, tg \in AddTags, imp \in AddImportance :
       AddEpisode(c, src, tg, imp)
  \/ run_frame.pc = "idle" /\ Tick

SpecRace == InitRace /\ [][NextRace]_vars

\* a response and the concepts the reader knows, before regulate is called
InitOut ==
  /\ outText \in OutTexts
  /\ outKnown \in OutKnownLists
  /\ outResult = NoRegulation
  /\ episodes = <<>>
  /\ entries = <<>>
  /\ issuedIds = <<>>
  /\ alias_map = EmptyAliases
  /\ now = 0
  /\ consolidation_history = <<>>
  /\ storeResult = NoStoreResult
  /\ storeOps = 0
  /\ capacity = 1
  /\ buffer = <<>>
  /\ compression_log = <<>>
  /\ bufResult = NoResult
  /\ bufOps = 0
  /\ cycle_threshold = 1
  /\ cycling = EmptyMap
  /\ loopResult = NoLoopResult
  /\ encounters = [k \in LoopKeys |-> <<>>]
  /\ loopOps = 0
  /\ scEpisode = Peer(1)
  /\ scEntries = <<>>
  /\ scAll = <<>>
  /\ scNow = 0
  /\ scResult = NoScore
  /\ triples = <<>>
  /\ arbResult = NoArbResult
  /\ llmCalls = <<>>
  /\ arbOps = 0
  /\ run_frame = IdleFrame
  /\ added = {}

NextOut == Regulate

SpecOut == InitOut /\ [][NextOut]_vars

\* a knowledge graph as loaded, nothing asked yet
InitArb ==
  /\ triples \in KnowledgeGraphs
  /\ arbResult = NoArbResult
  /\ llmCalls = <<>>
  /\ arbOps = 0
  /\ capacity = 1
  /\ buffer = <<>>
  /\ compression_log = <<>>
  /\ bufResult = NoResult
  /\ bufOps = 0
  /\ cycle_threshold = 1
  /\ cycling = EmptyMap
  /\ loopResult = NoLoopResult
  /\ encounters = [k \in LoopKeys |-> <<>>]
  /\ loopOps = 0
  /\ scEpisode = Peer(1)
  /\ scEntries = <<>>
  /\ scAll = <<>>
  /\ scNow = 0
  /\ scResult = NoScore
  /\ episodes = <<>>
  /\ entries = <<>>
  /\ alias_map = EmptyAliases
  /\ now = 0
  /\ consolidation_history = <<>>
  /\ storeResult = NoStoreResult
  /\ issuedIds = <<>>
  /\ storeOps = 0
  /\ run_frame = IdleFrame
  /\ added = {}
  /\ outText = <<>>
  /\ outKnown = <<>>
  /\ outResult = NoRegulation

NextArb ==
  \E q \in ArbQueries :
    \/ Arbitrate(q, FALSE, <<>>)
    \/ \E cs \in ArbConceptLists : Arbitrate(q, TRUE, cs)

SpecArb == InitArb /\ [][NextArb]_vars

(***************************************************************************)
(* Claims about the AttentionBuffer (SpecBuf)                              *)
(***************************************************************************)
\* a step that is one add call: every call counts in bufOps, and only
\* get_active_context returns a context
IsAddStep == bufOps' = bufOps + 1 /\ bufResult'.action # "context"

\* the fuzzy test as the specification words it
SpecFuzzy(x, y) == IsSubstr(Lower(x), Lower(y)) \/ IsSubstr(Lower(y), Lower(x))

\* C1: for every capacity C >= 1 and every sequence of add and
\* get_active_context calls from the empty buffer, len(buffer) <= C in every
\* reachable state.
C1_SizeWithinCapacity == Len(buffer) <= capacity

\* is `part` (a sequence) made of distinct positions of `whole`?
IsSubBag(part, whole) ==
  \E f \in [1..Len(part) -> 1..Len(whole)] :
    /\ \A i, j \in 1..Len(part) : i # j => f[i] # f[j]
    /\ \A i \in 1..Len(part) : part[i] = whole[f[i]]

\* C2: whenever add takes the overflow branch (no fuzzy match and
\* len(buffer) = C) the buffer afterwards holds exactly C chunks: the C-2
\* chunks that were not evicted, then one new compressed chunk, then the new
\* chunk last; the call returns 'compressed' with buffer_size = C.
C2_OverflowKeepsCapacity ==
  [][ ( /\ IsAddStep
        /\ Len(buffer) = capacity
        /\ \A i \in 1..Len(buffer) : ~SpecFuzzy(bufResult'.concept, buffer[i].concept) )
      => /\ Len(buffer') = capacity
         /\ bufResult'.action = "compressed"
         /\ bufResult'.buffer_size = capacity
         /\ buffer'[Len(buffer')].concept = bufResult'.concept
         /\ ~buffer'[Len(buffer')].is_compressed
         /\ buffer'[Len(buffer') - 1].is_compressed
         /\ IsSubBag(SubSeq(buffer', 1, capacity - 2), buffer)
    ]_vars

\* C3: an add whose concept fuzzily matches some chunk's label returns
\* 'refreshed', raises the access count of exactly the first matching chunk by
\* one and leaves size, membership, order and the compression log alone, also
\* when the buffer is full.
C3_RefreshOnly ==
  [][ ( /\ IsAddStep
        /\ \E i \in 1..Len(buffer) : SpecFuzzy(bufResult'.concept, buffer[i].concept) )
      => LET hit == CHOOSE i \in 1..Len(buffer) :
                      /\ SpecFuzzy(bufResult'.concept, buffer[i].concept)
                      /\ \A j \in 1..(i - 1) :
                           ~SpecFuzzy(bufResult'.concept, buffer[j].concept)
         IN /\ bufResult'.action = "refreshed"
            /\ Len(buffer') = Len(buffer)
            /\ \A i \in 1..Len(buffer) :
                 /\ buffer'[i].concept = buffer[i].concept
                 /\ buffer'[i].content = buffer[i].content
                 /\ buffer'[i].source = buffer[i].source
                 /\ buffer'[i].is_compressed = buffer[i].is_compressed
                 /\ buffer'[i].raw_concepts = buffer[i].raw_concepts
                 /\ buffer'[i].access_count =
                      buffer[i].access_count + (IF i = hit THEN 1 ELSE 0)
            /\ compression_log' = compression_log
    ]_vars

\* a full buffer in which a refresh hit the first of two matching chunks
C3_Witness ==
  /\ bufResult.action = "refreshed"
  /\ Len(buffer) = capacity
  /\ \E i, j \in 1..Len(buffer) :
       /\ i < j
       /\ SpecFuzzy(bufResult.concept, buffer[i].concept)
       /\ SpecFuzzy(bufResult.concept, buffer[j].concept)
       /\ buffer[i].access_count = 1
       /\ buffer[j].access_count = 0

(***************************************************************************)
(* Claims about the PhonologicalLoop (SpecLoop)                            *)
(***************************************************************************)
\* the number of encounter i of a key, counted from the moment the key was
\* untracked (at the start, and after each consolidation)
RECURSIVE EncounterNo(_, _)
EncounterNo(h, i) ==
  IF i = 1 \/ h[i - 1].status = "consolidated" THEN 1
  ELSE EncounterNo(h, i - 1) + 1

\* the claim's state machine for one key with history h
FollowsCycle(key, h) ==
  \A i \in 1..Len(h) :
    LET n == EncounterNo(h, i) IN
    /\ n = cycle_threshold =>
         /\ h[i].status = "consolidated"
         /\ h[i].cycles = cycle_threshold
         /\ (i = Len(h) => key \notin DOMAIN GetCyclingConcepts(cycling))
    /\ (1 < n /\ n < cycle_threshold) => h[i].status = "cycling"
    /\ (i > 1 /\ h[i - 1].status = "consolidated") =>
         (h[i].status = "new" /\ h[i].cycles = 1)

\* C4 as stated: for every cycle_threshold >= 1, encounter number `threshold`
\* returns 'consolidated' with cycles = threshold and the concept is then
\* untracked; the next encounter returns 'new' with cycles = 1; encounters
\* strictly between the first and the threshold-th return 'cycling'.
C4_Original == \A key \in LoopKeys : FollowsCycle(key, encounters[key])

\* C4 amended: the same for every cycle_threshold >= 2; with cycle_threshold
\* = 1 the encounters of a concept alternate 'new' (cycles 1) and
\* 'consolidated' (cycles 2).
C4_Amended ==
  \A key \in LoopKeys :
    LET h == encounters[key] IN
    IF cycle_threshold >= 2 THEN FollowsCycle(key, h)
    ELSE \A i \in 1..Len(h) :
           IF i % 2 = 1 THEN h[i].status = "new" /\ h[i].cycles = 1
           ELSE h[i].status = "consolidated" /\ h[i].cycles = 2

\* a concept consolidated at its threshold-th encounter and met again
C4_Witness ==
  /\ cycle_threshold >= 2
  /\ \E key \in LoopKeys :
       \E i \in 2..Len(encounters[key]) :
         /\ encounters[key][i - 1].status = "consolidated"
         /\ encounters[key][i - 1].cycles = cycle_threshold
         /\ encounters[key][i].status = "new"

(***************************************************************************)
(* Claims about the SaliencyScorer (SpecScore)                             *)
(***************************************************************************)
InUnitRange(x) == 0 <= x /\ x <= 1000

\* C8: for every episode that satisfies the data model (any parseable
\* timestamp, also one later than the current time) and the default weights,
\* each of the five dimension values and total_score lies in [0,1].
C8_ScoresInUnitRange ==
  scResult # NoScore =>
    /\ InUnitRange(scResult.total_score)
    /\ InUnitRange(scResult.dimensions.frequency)
    /\ InUnitRange(scResult.dimensions.recency)
    /\ InUnitRange(scResult.dimensions.user_signal)
    /\ InUnitRange(scResult.dimensions.novelty)
    /\ InUnitRange(scResult.dimensions.connection_density)

\* C9: in every ScoreResult the action is one of consolidate, prune, retain
\* and agrees with the total_score of the same result: consolidate iff
\* total_score >= 0.65, prune iff total_score <= 0.25, otherwise retain.
C9_ActionMatchesReportedTotal ==
  scResult # NoScore =>
    /\ scResult.action \in {"consolidate", "prune", "retain"}
    /\ (scResult.action = "consolidate") <=> (scResult.total_score >= 650)
    /\ (scResult.action = "prune") <=> (scResult.total_score <= 250)

(***************************************************************************)
(* Claims about the stores and the consolidation engine (SpecStore)        *)
(***************************************************************************)
NoRepeats(ids) ==
  \A i, j \in 1..Len(ids) : i # j => ids[i] # ids[j]

\* C5: from a store with the distinct ids ep_001..ep_n, after any sequence of
\* add_episode, search and run all episodes in the store have pairwise
\* distinct ids, and every id add_episode hands out differs from every id
\* assigned before.
C5_UniqueEpisodeIds ==
  /\ NoRepeats([i \in 1..Len(episodes) |-> episodes[i].id])
  /\ NoRepeats(issuedIds)

\* the ids the runs so far have pruned
PrunedIds ==
  UNION { SeqToSet(consolidation_history[h].details.pruned) :
            h \in 1..Len(consolidation_history) }

\* C6: once a run has pruned the episode with id X, no later search result
\* and no later score report contains an episode with id X.
C6_PrunedNeverRead ==
  /\ storeResult.kind = "search" =>
       \A i \in 1..Len(storeResult.episodic_results) :
         storeResult.episodic_results[i].record.id \notin PrunedIds
  /\ storeResult.kind = "report" =>
       \A i \in 1..Len(storeResult.scores) :
         storeResult.scores[i].score.episode_id \notin PrunedIds

\* the ids of the semantic entries the runs so far have written
WrittenEntryIds ==
  UNION { { consolidation_history[h].details.consolidated[k].new_semantic_entry :
              k \in 1..Len(consolidation_history[h].details.consolidated) } :
            h \in 1..Len(consolidation_history) }

\* C7: after any sequence of runs (in particular two in succession with no
\* new episode in between) no two semantic entries written by run list the
\* same source episode id.
C7_NoDuplicateSources ==
  \A i, j \in 1..Len(entries) :
    ( /\ i < j
      /\ entries[i].id \in WrittenEntryIds
      /\ entries[j].id \in WrittenEntryIds )
    => SeqToSet(entries[i].source_episodes)
         \cap SeqToSet(entries[j].source_episodes) = {}

\* two runs in succession: the first wrote an entry for an episode, the second
\* scored that episode as consolidate again and skipped it
C7_Witness ==
  /\ Len(consolidation_history) = 2
  /\ storeOps = 2
  /\ consolidation_history[1].consolidated = 1
  /\ consolidation_history[2].consolidated = 0
  /\ consolidation_history[2].total_scored >
       consolidation_history[2].pruned + consolidation_history[2].retained
  /\ \E i \in 1..Len(episodes) :
       episodes[i].id = consolidation_history[1].details.consolidated[1].source_episode

(***************************************************************************)
(* Claims about the ArbitrationLayer (SpecArb)                             *)
(***************************************************************************)
\* a triple is a hit of a concept: the concept and the subject contain one
\* another, or the object contains the concept (all lowercased)
SpecMatches(concept, t) ==
  \/ IsSubstr(Lower(concept), Lower(t.subject))
  \/ IsSubstr(Lower(t.subject), Lower(concept))
  \/ IsSubstr(Lower(concept), Lower(t.object))

\* the confidences of the triples that some searched concept hits
HitConfidences(concepts) ==
  { triples[i].confidence : i \in
      { k \in 1..Len(triples) :
          \E c \in 1..Len(concepts) : SpecMatches(concepts[c], triples[k]) } }

\* the decision table of the specification
SpecDecision(m) ==
  IF m >= 85 THEN "kg_primary"
  ELSE IF m >= 50 THEN "hybrid"
  ELSE IF m > 0 THEN "llm_primary_kg_ref"
  ELSE "llm_fallback"

\* C10: the decision is a function of maxConf (the highest confidence among
\* the hits, 0 without hits) alone: >= 0.85 kg_primary, [0.50, 0.85) hybrid,
\* (0, 0.50) llm_primary_kg_ref, 0 llm_fallback; when no triple matches the
\* decision is llm_fallback, and every query gets a decision.
C10_DecisionByMaxConf ==
  arbResult.kind = "arbitrated" =>
    LET confs == HitConfidences(arbResult.concepts_searched)
        m     == IF confs = {} THEN 0 ELSE Max(confs)
    IN /\ arbResult.kg_max_confidence = m
       /\ arbResult.decision = SpecDecision(m)
       /\ confs = {} => arbResult.decision = "llm_fallback"
       /\ arbResult.decision \in
            {"kg_primary", "hybrid", "llm_primary_kg_ref", "llm_fallback"}

\* a query whose best hit sits exactly on the high threshold
C10_Witness ==
  /\ arbResult.kind = "arbitrated"
  /\ arbResult.kg_hits > 0
  /\ arbResult.kg_max_confidence = 85
  /\ arbResult.decision = "kg_primary"

\* C11: an arbitrate call hands the query to llm.generate exactly once when
\* the decision is hybrid, llm_primary_kg_ref or llm_fallback and never when
\* it is kg_primary, and changes no triple (hence no index bucket) and no
\* store, buffer or tracker state.
C11_FallbackOnlyWhenNeeded ==
  [][ arbOps' = arbOps + 1 =>
        /\ arbResult'.decision = "kg_primary" => llmCalls' = llmCalls
        /\ arbResult'.decision \in {"hybrid", "llm_primary_kg_ref", "llm_fallback"} =>
             /\ Len(llmCalls') = Len(llmCalls) + 1
             /\ SubSeq(llmCalls', 1, Len(llmCalls)) = llmCalls
        /\ triples' = triples
        /\ IndexKeys(triples') = IndexKeys(triples)
        /\ \A k \in SeqToSet(IndexKeys(triples)) :
             Bucket(triples', k) = Bucket(triples, k)
        /\ UNCHANGED <<bufVars, loopVars, scVars, storeVars, raceVars, outVars>> ]_vars

\* two calls: one that took the fallback, then one answered from the graph
\* alone
C11_Witness ==
  /\ arbOps = 2
  /\ Len(llmCalls) = 1
  /\ arbResult.kind = "arbitrated"
  /\ arbResult.decision = "kg_primary"

\* the hits of the searched concepts, as keys
SpecHitKeys(concepts) ==
  { TripleKey(triples[k]) : k \in
      { k \in 1..Len(triples) :
          \E c \in 1..Len(concepts) : SpecMatches(concepts[c], triples[k]) } }

\* C12: the hit list arbitrate works with (its top 5 are trace.kg_results) is
\* the union of the per-concept hits, no two of them share (subject,
\* relation, object), it is ordered by non-increasing confidence, and
\* kg_max_confidence is the highest confidence among the hits (0 without).
C12_HitsMergedAndSorted ==
  arbResult.kind = "arbitrated" =>
    LET shown == arbResult.trace.kg_results
        confs == HitConfidences(arbResult.concepts_searched)
    IN /\ \A i, j \in 1..Len(shown) :
            i < j => /\ TripleKey(shown[i]) # TripleKey(shown[j])
                     /\ shown[i].confidence >= shown[j].confidence
       /\ \A i \in 1..Len(shown) :
            TripleKey(shown[i]) \in SpecHitKeys(arbResult.concepts_searched)
       /\ arbResult.kg_hits = Cardinality(SpecHitKeys(arbResult.concepts_searched))
       /\ arbResult.kg_max_confidence = (IF confs = {} THEN 0 ELSE Max(confs))

(***************************************************************************)
(* Claims about DualStore.search and the bindings (SpecSearch)             *)
(***************************************************************************)
AllQueries == SearchQueries \cup BindQueries

\* the relevance of a stored episode for a query: the share of the query's
\* terms (bindings applied) found in its text
SpecRelevance(ep, query) ==
  LET terms == ExpandQuery(query, alias_map)
  IN <<Hits(EpisodeText(ep), terms), IF Len(terms) = 0 THEN 1 ELSE Len(terms)>>

\* what one search call may change, for a query
SearchEffect(query) ==
  LET hitIdx == {i \in 1..Len(episodes) : SpecRelevance(episodes[i], query)[1] > 0}
      inc    == {i \in 1..Len(episodes) : episodes'[i] # episodes[i]}
  IN /\ Len(episodes') = Len(episodes)
     /\ \A i \in inc :
          episodes'[i] = [episodes[i] EXCEPT !.retrieval_count = @ + 1]
     /\ inc \subseteq hitIdx
     /\ Cardinality(inc) = Min({3, Cardinality(hitIdx)})
     /\ \A i \in inc, j \in hitIdx \ inc :
          ~FracGreater(SpecRelevance(episodes[j], query),
                       SpecRelevance(episodes[i], query))
     /\ entries' = entries
     /\ alias_map' = alias_map
     /\ Len(storeResult'.episodic_results) <= 5
     /\ Len(storeResult'.semantic_results) <= 3

\* C13: with distinct episode ids, one search call adds exactly 1 to the
\* retrieval_count of each of the min(3, hits) most relevant episodic hits
\* and of no other episode, changes nothing else in either store and no
\* binding, and returns at most 5 episodic and at most 3 semantic results.
C13_SearchCountsTopThree ==
  [][ \A q \in AllQueries :
        ( /\ Search(q)
          /\ NoRepeats([i \in 1..Len(episodes) |-> episodes[i].id]) )
        => SearchEffect(q) ]_vars

\* a search over six hits: three counted, five returned
C13_Witness ==
  /\ storeResult.kind = "search"
  /\ storeOps = 1
  /\ Len(episodes) = 6
  /\ Len(storeResult.episodic_results) = 5
  /\ Len(storeResult.semantic_results) = 3
  /\ Cardinality({i \in 1..Len(episodes) : episodes[i].retrieval_count = 1}) = 3

\* relevance > 0.3 of the first result, if any
SpecSufficient(results, atLeast) ==
  /\ Len(results) >= atLeast
  /\ results[1].relevance[1] * 10 > 3 * results[1].relevance[2]

\* C14: search returns one strategy, determined by epSufficient (at least 2
\* episodic results, top relevance > 0.3) and semSufficient (at least 1
\* semantic result, top relevance > 0.3); no match in either store gives
\* empty result lists and insufficient.
C14_StrategyTable ==
  storeResult.kind = "search" =>
    LET ep  == SpecSufficient(storeResult.episodic_results, 2)
        sem == SpecSufficient(storeResult.semantic_results, 1)
    IN storeResult.strategy =
         (IF ep /\ sem THEN "both_available"
          ELSE IF ep THEN "episodic_primary"
          ELSE IF sem THEN "semantic_compensation"
          ELSE "insufficient")

\* a single episodic hit of relevance 1/3 is not sufficient, the semantic hit
\* of relevance 1/3 is: the semantic side compensates
C14_Witness ==
  /\ storeResult.kind = "search"
  /\ Len(storeResult.episodic_results) = 1
  /\ storeResult.episodic_results[1].relevance = <<1, 3>>
  /\ Len(storeResult.semantic_results) = 1
  /\ storeResult.semantic_results[1].relevance = <<1, 3>>
  /\ storeResult.strategy = "semantic_compensation"

\* C15: with the binding bottleneck -> "positive constraint of the working
\* memory limit" active, a search for the term also returns the records that
\* contain "working memory limit" and never the term itself.
C15_AliasReachesMeaning ==
  [][ ( /\ Search(Bottleneck)
        /\ Bottleneck \in DOMAIN alias_map
        /\ alias_map[Bottleneck] = PositiveConstraint )
      => \A i \in 1..Len(episodes) :
           ( /\ IsSubstr(WorkingMemoryLimit, EpisodeText(episodes[i]))
             /\ ~IsSubstr(Bottleneck, EpisodeText(episodes[i])) )
           => \E k \in 1..Len(storeResult'.episodic_results) :
                storeResult'.episodic_results[k].record.id = episodes[i].id ]_vars

(***************************************************************************)
(* Claims about one consolidation cycle (SpecStore)                        *)
(***************************************************************************)
\* a step that is one call of run
IsRunStep == Len(consolidation_history') = Len(consolidation_history) + 1

\* the action of the cycle for the episode at index i of the store
CycleAction(i) == Score(episodes[i], entries, episodes, now).action

\* the positions of the entries the cycle has written
WrittenNow == (Len(entries) + 1)..Len(entries')

\* the cycle has written an entry for the episode at index i
WrittenFor(i) ==
  \E j \in WrittenNow : entries'[j].source_episodes = <<episodes[i].id>>

\* the entries in the store when the episode at index i is processed: those
\* of the store before the cycle and those written for earlier episodes
EntriesBefore(i) ==
  SubSeq(entries', 1,
         Len(entries) + Cardinality({k \in 1..(i - 1) :
                                       CycleAction(k) = "consolidate" /\ WrittenFor(k)}))

\* some entry lists the id of the episode or holds two of its tags
SpecCaptured(ep, ents) ==
  \E j \in 1..Len(ents) :
    \/ \E k \in 1..Len(ents[j].source_episodes) : ents[j].source_episodes[k] = ep.id
    \/ Cardinality({tag \in TagSet(ep) : IsSubstr(tag, Lower(ents[j].content))}) >= 2

C17_EntryFromOneEpisode ==
  [][ IsRunStep =>
        /\ \A j \in WrittenNow :
             /\ Cardinality({i \in 1..Len(episodes) :
                               /\ CycleAction(i) = "consolidate"
                               /\ entries'[j].source_episodes = <<episodes[i].id>>
                               /\ entries'[j].confidence =
                                    Score(episodes[i], entries, episodes, now).total_score})
                  = 1
             /\ InUnitRange(entries'[j].confidence)
        /\ \A j, k \in WrittenNow :
             j # k => entries'[j].source_episodes # entries'[k].source_episodes
        /\ \A i \in 1..Len(episodes) :
             CycleAction(i) # "consolidate" => ~WrittenFor(i) ]_vars

\* the episodes of the store that the cycle does not score as prune
SpecSurvivors ==
  SelectSeq(episodes,
            LAMBDA ep : Score(ep, entries, episodes, now).action # "prune")

\* C18: in every reachable store state (also after add_episode following a
\* prune) run removes exactly the episodes whose action in the cycle is
\* prune; every retain or consolidate episode is still stored afterwards,
\* unchanged and in the same relative order.
C18_RunRemovesOnlyPruned ==
  [][ IsRunStep => episodes' = SpecSurvivors ]_vars

\* C19: no operation removes or rewrites a semantic entry: the entry list
\* only grows by appending and every entry keeps its fields, also after the
\* episodes its source_episodes names have been pruned.
C19_EntriesAppendOnly ==
  [][ /\ Len(entries') >= Len(entries)
      /\ SubSeq(entries', 1, Len(entries)) = entries ]_vars

\* an entry that names ep_001 as its source is still stored after a cycle has
\* pruned ep_001
C19_Witness ==
  /\ \E j \in 1..Len(entries) : entries[j].source_episodes = <<EpId(1)>>
  /\ EpId(1) \in PrunedIds
  /\ \A i \in 1..Len(episodes) : episodes[i].id # EpId(1)

\* C20: from a semantic store with the distinct ids sem_001..sem_n, after any
\* sequence of add_entry calls and consolidation runs all entries have
\* pairwise distinct ids and no entry's id changes.
C20_UniqueEntryIds ==
  [][ /\ NoRepeats([j \in 1..Len(entries') |-> entries'[j].id])
      /\ \A j \in 1..Len(entries) : entries'[j].id = entries[j].id ]_vars

\* a store with a seeded entry, an entry added from outside and an entry
\* written by a cycle
C20_Witness ==
  /\ Len(entries) >= 3
  /\ WrittenEntryIds # {}
  /\ \E j \in 1..Len(entries) :
       entries[j].id \notin WrittenEntryIds /\ entries[j].content = T1 \o <<" ">> \o T2
  /\ \E j \in 1..Len(entries) : entries[j].concept = <<"k">> /\ entries[j].content = T1

(***************************************************************************)
(* Claims about the score report and the history (SpecStore)               *)
(***************************************************************************)
\* a step that is one call returning a result of the given kind
IsCallStep(kind) == storeOps' = storeOps + 1 /\ storeResult'.kind = kind

\* the number of elements of a sequence equal to x
CountOf(seq, x) == Cardinality({i \in 1..Len(seq) : seq[i] = x})

\* C21: get_score_report changes nothing: the episodic store (membership,
\* order, retrieval counts), the semantic store and the consolidation history
\* are the same before and after; it returns exactly one score per stored
\* episode, in non-increasing total_score order.
C21_ReportReadsOnly ==
  [][ IsCallStep("report") =>
        LET scores == storeResult'.scores
            ids    == [i \in 1..Len(episodes) |-> episodes[i].id]
            scored == [i \in 1..Len(scores) |-> scores[i].score.episode_id]
        IN /\ episodes' = episodes
           /\ entries' = entries
           /\ consolidation_history' = consolidation_history
           /\ Len(scores) = Len(episodes)
           /\ \A i \in 1..Len(ids) : CountOf(scored, ids[i]) = CountOf(ids, ids[i])
           /\ \A i \in 1..Len(scores) :
                \E k \in 1..Len(episodes) :
                  scores[i].score = Score(episodes[k], entries, episodes, now)
           /\ \A i, j \in 1..Len(scores) :
                i < j => scores[i].total_score >= scores[j].total_score ]_vars

\* a report that lists the second episode of the store first
C21_Witness ==
  /\ storeResult.kind = "report"
  /\ Len(storeResult.scores) = 2
  /\ Len(episodes) = 2
  /\ storeResult.scores[1].score.episode_id = episodes[2].id
  /\ storeResult.scores[1].total_score > storeResult.scores[2].total_score

\* C22: every run appends exactly one event to consolidation_history (also
\* when nothing is consolidated or pruned) and returns that event; no
\* operation removes, reorders or changes an event of the history, so its
\* length is the number of completed runs.
C22_HistoryAppendOnly ==
  [][ /\ SubSeq(consolidation_history', 1, Len(consolidation_history))
           = consolidation_history
      /\ IF IsCallStep("run")
           THEN /\ Len(consolidation_history') = Len(consolidation_history) + 1
                /\ consolidation_history'[Len(consolidation_history')] = storeResult'
           ELSE consolidation_history' = consolidation_history ]_vars

\* two runs, the second with nothing to consolidate or prune, then another
\* operation: the history holds both events
C22_Witness ==
  /\ Len(consolidation_history) = 2
  /\ storeOps = 3
  /\ storeResult.kind # "run"
  /\ consolidation_history[2].consolidated = 0
  /\ consolidation_history[2].pruned = 0

(***************************************************************************)
(* C23: which chunks an overflow evicts                                    *)
(***************************************************************************)
IsOverflowStep == IsAddStep /\ bufResult'.action = "compressed"

\* the spec's eviction score, doubled: 2 * access_count, +1 when not
\* compressed, +1 for source "conversation" and +0.5 otherwise
SpecEvictionScore2(chunk) ==
  2 * (2 * chunk.access_count)
  + (IF chunk.is_compressed THEN 0 ELSE 2)
  + (IF chunk.source = "conversation" THEN 2 ELSE 1)

\* positions of the old buffer whose label the call reports as evicted
EvictedPositions ==
  { i \in 1..Len(buffer) : \E k \in 1..Len(bufResult'.evicted) :
                              bufResult'.evicted[k] = buffer[i].concept }

\* the evicted chunks are the lowest-scored ones, a tie going to the chunk
\* earlier in the buffer, and the compressed chunk lists their labels
LowestEvicted ==
  /\ \A i \in EvictedPositions : \A j \in (1..Len(buffer)) \ EvictedPositions :
       \/ SpecEvictionScore2(buffer[i]) < SpecEvictionScore2(buffer[j])
       \/ SpecEvictionScore2(buffer[i]) = SpecEvictionScore2(buffer[j]) /\ i < j
  /\ Len(bufResult'.evicted) = Cardinality(EvictedPositions)
  /\ buffer'[Len(buffer') - 1].is_compressed
  /\ buffer'[Len(buffer') - 1].raw_concepts = bufResult'.evicted
  /\ \A i \in (1..Len(buffer)) \ EvictedPositions :
       \E k \in 1..(Len(buffer') - 2) : buffer'[k] = buffer[i]

\* C23 as stated: an overflow evicts exactly the two chunks with the lowest
\* eviction scores (ties toward the earlier buffer position), no evicted chunk
\* scores above a kept one, and the compressed chunk's raw_concepts is the
\* list of the evicted labels.
C23_TwoLowestEvicted ==
  [][ IsOverflowStep => Cardinality(EvictedPositions) = 2 /\ LowestEvicted ]_vars

\* an overflow of a one-chunk buffer has happened: a single label was
\* evicted and the compressed chunk lists that one label
C23_Witness ==
  /\ bufResult.action = "compressed"
  /\ Len(bufResult.evicted) = 1
  /\ Len(buffer) = 2
  /\ buffer[1].is_compressed
  /\ buffer[1].raw_concepts = bufResult.evicted

(***************************************************************************)
(* C24: get_active_context                                                 *)
(***************************************************************************)
IsContextStep == bufOps' = bufOps + 1 /\ bufResult'.action = "context"

\* C24: get_active_context raises the access_count of every chunk in the
\* buffer by exactly one and changes nothing else: the buffer keeps its
\* size, order, labels, contents and flags, the compression log is
\* untouched, and the returned parts are "[label] content" in buffer order.
C24_ContextCountsAccess ==
  [][ IsContextStep =>
        /\ Len(buffer') = Len(buffer)
        /\ \A i \in 1..Len(buffer) :
             /\ buffer'[i].access_count = buffer[i].access_count + 1
             /\ [buffer'[i] EXCEPT !.access_count = 0]
                  = [buffer[i] EXCEPT !.access_count = 0]
        /\ compression_log' = compression_log
        /\ capacity' = capacity
        /\ Len(bufResult'.parts) = Len(buffer)
        /\ \A i \in 1..Len(buffer) :
             bufResult'.parts[i]
               = <<"[">> \o buffer[i].concept \o <<"]", " ">> \o buffer[i].content
     ]_vars

\* get_active_context has just run on a buffer holding a compressed chunk
\* and a plain one, and the plain chunk has been counted twice by now
C24_Witness ==
  /\ bufResult.action = "context"
  /\ Len(buffer) >= 2
  /\ \E i \in 1..Len(buffer) : buffer[i].is_compressed
  /\ \E i \in 1..Len(buffer) : ~buffer[i].is_compressed
                                /\ buffer[i].access_count >= 2

(***************************************************************************)
(* C25: the alias map                                                      *)
(***************************************************************************)
IsAliasStep == storeOps' = storeOps + 1
               /\ storeResult'.kind \in {"alias_added", "alias_removed",
                                         "alias_not_found"}

\* C25: the alias map is a case-insensitive last-write-wins map.  add_alias
\* binds the lowercased term to the given meaning, replacing what was bound
\* to it, and remove_alias unbinds the lowercased term; every other binding
\* stays as it was, so the map always holds, per lowercased term, the meaning
\* of the latest add not followed by a remove.  remove_alias on an unbound
\* term reports not-found and leaves the map unchanged; no other call
\* changes the map.
C25_AliasLastWriteWins ==
  [][ IF IsAliasStep
        THEN LET key  == Lower(storeResult'.term)
                 kind == storeResult'.kind
             IN /\ \A k \in (DOMAIN alias_map \cup DOMAIN alias_map') \ {key} :
                     /\ k \in DOMAIN alias_map /\ k \in DOMAIN alias_map'
                     /\ alias_map'[k] = alias_map[k]
                /\ kind = "alias_added" =>
                     /\ key \in DOMAIN alias_map'
                     /\ alias_map'[key] = storeResult'.meaning
                /\ kind # "alias_added" => key \notin DOMAIN alias_map'
                /\ kind = "alias_removed" => key \in DOMAIN alias_map
                /\ kind = "alias_not_found" =>
                     key \notin DOMAIN alias_map /\ alias_map' = alias_map
                /\ \A k \in DOMAIN alias_map' : k = Lower(k)
        ELSE alias_map' = alias_map ]_vars

\* remove_alias has just reported not-found for a term typed with a capital
\* while another term is still bound, after two earlier calls
C25_Witness ==
  /\ storeResult.kind = "alias_not_found"
  /\ storeResult.term = <<"w", "M">>
  /\ storeOps = 3
  /\ DOMAIN alias_map = {Bottleneck}
  /\ alias_map[Bottleneck] = TwoWords

(***************************************************************************)
(* C27: the concepts searched when none are given                          *)
(***************************************************************************)
\* the known subjects and objects that occur in the lowercased query
SpecOccurring(kg, query) ==
  {c \in KnownConcepts(kg) : IsSubstr(c, Lower(query))}

\* C27: a call of arbitrate without a concept list searches every known
\* triple subject or object that occurs, lowercased, as a substring of the
\* lowercased query, each once; only when none occurs does it search the
\* query tokens longer than 2 characters, at most 5 of them.
C27_ConceptsAreKnownSubstrings ==
  [][ \A q \in ArbQueries :
        Arbitrate(q, FALSE, <<>>) =>
          LET searched == arbResult'.concepts_searched
          IN IF SpecOccurring(triples, q) # {}
               THEN /\ SeqToSet(searched) = SpecOccurring(triples, q)
                    /\ Len(searched) = Cardinality(SpecOccurring(triples, q))
               ELSE searched = FallbackWords(q) ]_vars

\* arbitrate has answered the query "ai now" on a graph that knows "ai":
\* the concept searched is the token "now" and the graph gave no hit
C27_Witness ==
  /\ arbResult.kind = "arbitrated"
  /\ \E i \in 1..Len(triples) : Lower(triples[i].subject) = <<"a", "i">>
  /\ arbResult.concepts_searched = << <<"n", "o", "w">> >>
  /\ arbResult.kg_hits = 0
  /\ arbResult.decision = "llm_fallback"

(***************************************************************************)
(* C29: arbitrate and the iteration order of the known-concept set         *)
(***************************************************************************)
\* C29: arbitrate is deterministic in its inputs: for one query and one
\* knowledge graph, every order in which the known-concept set can be
\* iterated gives the same decision, the same kg_max_confidence, the same
\* ordered hit list in trace.kg_results and the same top-3 hits quoted in
\* the response.
C29_ArbitrateDeterministic ==
  [][ \A q \in ArbQueries :
        Arbitrate(q, FALSE, <<>>) =>
          \A cs \in ExtractConcepts(triples, q) :
            LET other == ArbitrateOutcome(triples, q, cs)
            IN /\ other.decision = arbResult'.decision
               /\ other.kg_max_confidence = arbResult'.kg_max_confidence
               /\ other.trace.kg_results = arbResult'.trace.kg_results
               /\ Take(other.response.facts, TopQuoted)
                    = Take(arbResult'.response.facts, TopQuoted) ]_vars

\* arbitrate has answered "fox Dog" after iterating the known concepts as
\* fox, dog: the hit list starts with the less confident hit, although the
\* other iteration order lists the same two hits the other way round
C29_Witness ==
  /\ arbResult.kind = "arbitrated"
  /\ arbResult.concepts_searched = <<Fox, Lower(Dog)>>
  /\ Len(arbResult.trace.kg_results) = 2
  /\ arbResult.trace.kg_results[1].confidence = 49
  /\ arbResult.trace.kg_results[2].confidence = 50
  /\ arbResult.decision = "hybrid"
  /\ <<Lower(Dog), Fox>> \in ExtractConcepts(triples, Fox \o <<" ">> \o Dog)

(***************************************************************************)
(* C26: scoring an episode whose timestamp is missing or malformed         *)
(* (SpecStamp)                                                             *)
(***************************************************************************)
Unparsed(ep) == ep.timestamp.kind # "iso"

\* C26: no call of score, get_score_report or run raises, whatever the
\* timestamps of the stored episodes (absent, a string that is not an ISO
\* timestamp, or a value that is not a string): the call completes and a
\* score computed for an episode with such a timestamp has recency 0.5.
C26_ScoringNeverRaises ==
  [][ /\ \A i \in 1..Len(episodes) :
           ScoreStored(i) =>
             /\ storeResult'.kind = "score"
             /\ Unparsed(episodes[i]) =>
                  storeResult'.score.dimensions.recency = 500
      /\ GetScoreReport =>
           /\ storeResult'.kind = "report"
           /\ Len(storeResult'.scores) = Len(episodes)
           /\ \A i \in 1..Len(episodes) :
                Unparsed(episodes[i]) =>
                  \E k \in 1..Len(storeResult'.scores) :
                    /\ storeResult'.scores[k].score.episode_id = episodes[i].id
                    /\ storeResult'.scores[k].score.dimensions.recency = 500
      /\ Run => storeResult'.kind = "run" ]_vars

\* get_score_report has been called on a store holding an episode whose
\* timestamp is not a string, and the TypeError left the call
C26_Witness ==
  /\ storeResult = Raised
  /\ \E i \in 1..Len(episodes) : episodes[i].timestamp = NonString
  /\ consolidation_history = <<>>

(***************************************************************************)
(* C28: add_episode between the statements of run (SpecRace)               *)
(***************************************************************************)
\* the ids the cycles so far have pruned
PrunedSoFar ==
  UNION { SeqToSet(consolidation_history[k].details.pruned) :
            k \in 1..Len(consolidation_history) }

\* a cycle has ended and an episode add_episode returned is gone from the
\* episodic store although no cycle pruned its id
LostEpisode(a) ==
  /\ run_frame.pc = "idle"
  /\ storeResult.kind = "run"
  /\ a.episode \notin SeqToSet(episodes)
  /\ a.episode.id \notin PrunedSoFar

\* C28: an add_episode that runs between the statements of run can be lost
\* (the raced half is C28_Witness); when every run and every add_episode
\* executes atomically, an episode add_episode returned is never removed by
\* a cycle whose scoring pass did not give it action prune.
C28_AtomicCyclesLoseNothing ==
  [][ ( /\ run_frame.pc = "filtered"
        /\ IsCallStep("run")
        /\ \A a \in added : ~a.midcycle )
      => \A a \in added :
           ( \E i \in 1..Len(episodes) :
               /\ episodes[i] = a.episode
               /\ run_frame.scores[i].action # "prune" )
           => a.episode \in SeqToSet(episodes') ]_vars

\* an episode that add_episode appended after the loop of run had passed,
\* before run replaced the store's list, is lost: no cycle pruned its id
C28_Witness ==
  \E a \in added : a.midcycle /\ LostEpisode(a)

(***************************************************************************)
(* C30: the segments of an overloaded response (SpecOut)                   *)
(***************************************************************************)
\* the paragraph segments of a regulated response: one more than the
\* separators in it
Segments(text) ==
  1 + Cardinality({i \in 1..(Len(text) - Len(PartSeparator) + 1) :
                     SubSeq(text, i, i + Len(PartSeparator) - 1) = PartSeparator})

\* C30: a response that is overloaded with more than 6 new concepts comes
\* back split into exactly ceil(newConcepts / 3) paragraph segments, however
\* many sentences it has; a response that is not overloaded comes back as
\* the original text.
C30_SegmentsPerThreeConcepts ==
  outResult.kind = "regulated" =>
    LET new == outResult.assessment.new_concept_count
    IN /\ (outResult.assessment.overloaded /\ new > 6) =>
            Segments(outResult.regulated_response) = (new + 2) \div 3
       /\ ~outResult.assessment.overloaded =>
            outResult.regulated_response = outResult.original_response

\* regulate has returned a response of two sentences and 7 new concepts,
\* for which 3 segments are recommended, in 2 segments
C30_Witness ==
  /\ outResult.kind = "regulated"
  /\ outResult.assessment.new_concept_count = 7
  /\ outResult.assessment.sentence_count = 2
  /\ outResult.assessment.suggestion.strategy = "segments"
  /\ outResult.assessment.suggestion.recommended_segments = 3
  /\ Segments(outResult.regulated_response) = 2

(***************************************************************************)
(* C31: a cycle scores against the stores it started from (SpecStore)      *)
(***************************************************************************)
\* the actions get_score_report shows on the stores and the clock a run
\* starts from
ShownIds(action) ==
  LET shown == ScoreReport(episodes, entries, now)
  IN {shown[k].score.episode_id :
        k \in {j \in 1..Len(shown) : shown[j].score.action = action}}

ShownCount(action) ==
  LET shown == ScoreReport(episodes, entries, now)
  IN Cardinality({k \in 1..Len(shown) : shown[k].score.action = action})

\* C31: a run acts on every episode by the action a score report taken on
\* the same stores and clock shows: it retains as many episodes as the
\* report shows as retain, prunes the ids the report shows as prune, writes
\* entries only for episodes the report shows as consolidate, and every
\* episode the report shows as consolidate is consolidated or caught by the
\* dedup check; an entry written during the cycle changes no action.
C31_RunActsOnStartScores ==
  [][ IsCallStep("run") =>
        LET event == storeResult'
        IN /\ event.total_scored = Len(episodes)
           /\ event.retained = ShownCount("retain")
           /\ SeqToSet(event.details.pruned) = ShownIds("prune")
           /\ \A k \in 1..Len(event.details.consolidated) :
                event.details.consolidated[k].source_episode
                  \in ShownIds("consolidate")
           /\ \A i \in 1..Len(episodes) :
                episodes[i].id \in ShownIds("consolidate") =>
                  AlreadyConsolidated(episodes[i], entries') ]_vars

\* a run has written an entry for the first of two episodes it scored as
\* consolidate and retained none, although the entry it wrote makes the
\* second one score as retain now
C31_Witness ==
  /\ storeResult.kind = "run"
  /\ storeResult.total_scored = 2
  /\ storeResult.consolidated = 1
  /\ storeResult.retained = 0
  /\ storeResult.pruned = 0
  /\ Len(episodes) = 2
  /\ Score(episodes[2], entries, episodes, now).action = "retain"
  /\ storeOps = 1

(***************************************************************************)
(* C32: the counts of a ConsolidationEvent (SpecStore)                     *)
(***************************************************************************)
DistinctEpisodeIds ==
  \A i, j \in 1..Len(episodes) : i # j => episodes[i].id # episodes[j].id

\* the positions the cycle that starts now scores with the given action
ScoredAs(action) ==
  {i \in 1..Len(episodes) :
     Score(episodes[i], entries, episodes, now).action = action}

\* C32: in the event of a run on a store with distinct episode ids,
\* consolidated is the length of details.consolidated, pruned is the length
\* of details.pruned and the number of prune-action episodes, retained is
\* the number of retain-action episodes, and total_scored exceeds
\* consolidated + pruned + retained by the number of consolidate-action
\* episodes the dedup check skipped.
C32_EventCounts ==
  [][ (IsCallStep("run") /\ DistinctEpisodeIds) =>
        LET event   == storeResult'
            written == {event.details.consolidated[k].source_episode :
                          k \in 1..Len(event.details.consolidated)}
            skipped == {i \in ScoredAs("consolidate") : episodes[i].id \notin written}
        IN /\ event.consolidated = Len(event.details.consolidated)
           /\ event.pruned = Len(event.details.pruned)
           /\ event.pruned = Cardinality(ScoredAs("prune"))
           /\ event.retained = Cardinality(ScoredAs("retain"))
           /\ event.total_scored = Len(episodes)
           /\ event.consolidated + event.pruned + event.retained <= event.total_scored
           /\ event.total_scored
                - (event.consolidated + event.pruned + event.retained)
                = Cardinality(skipped) ]_vars

\* a run on a store with distinct ids has returned an event whose three
\* counts add up to one less than total_scored: one episode was skipped by
\* the dedup check
C32_Witness ==
  /\ storeResult.kind = "run"
  /\ \A i, j \in 1..Len(issuedIds) : i # j => issuedIds[i] # issuedIds[j]
  /\ Len(storeResult.details.consolidated) = 1
  /\ storeResult.total_scored
       - (storeResult.consolidated + storeResult.pruned + storeResult.retained) = 1

\* the ids of the records of a list of hits
HitIds(hits) == { hits[i].record.id : i \in DOMAIN hits }

\* C33: alias expansion only widens the result set: for every query, every
\* record that the episodic or the semantic search finds without a binding
\* is also found once a binding for a term not bound so far is added
C33_AliasOnlyWidens ==
  \A q \in BindQueries, t \in AliasTerms, mg \in AliasMeanings :
    Lower(t) \notin DOMAIN alias_map =>
      /\ HitIds(EpisodicSearch(episodes, q, alias_map))
           \subseteq HitIds(EpisodicSearch(episodes, q, WithAlias(alias_map, t, mg)))
      /\ HitIds(SemanticSearch(entries, q, alias_map))
           \subseteq HitIds(SemanticSearch(entries, q, WithAlias(alias_map, t, mg)))

\* C33 as stated, for the lists DualStore.search returns: every record
\* returned without a binding is also returned after the binding is added
C33_ReturnedOnlyWidens ==
  \A q \in BindQueries, t \in AliasTerms, mg \in AliasMeanings :
    Lower(t) \notin DOMAIN alias_map =>
      LET before == SearchResult(episodes, entries, alias_map, q)
          after  == SearchResult(episodes, entries, WithAlias(alias_map, t, mg), q)
      IN /\ HitIds(before.episodic_results) \subseteq HitIds(after.episodic_results)
         /\ HitIds(before.semantic_results) \subseteq HitIds(after.semantic_results)

\* a search made under a binding has returned a record that the same search
\* without the binding does not return, and has left out one that it returns
C33_Witness ==
  /\ storeResult.kind = "search"
  /\ Lower(Wm) \in DOMAIN storeResult.active_aliases
  /\ \E q \in BindQueries :
       LET before == SearchResult(episodes, entries, WithoutAlias(alias_map, Wm), q)
           after  == SearchResult(episodes, entries, alias_map, q)
       IN /\ HitIds(storeResult.episodic_results) = HitIds(after.episodic_results)
          /\ HitIds(storeResult.semantic_results) = HitIds(after.semantic_results)
          /\ HitIds(after.episodic_results) \ HitIds(before.episodic_results) # {}
          /\ HitIds(before.episodic_results) \ HitIds(after.episodic_results) # {}
          /\ HitIds(EpisodicSearch(episodes, q, WithoutAlias(alias_map, Wm)))
               \subseteq HitIds(EpisodicSearch(episodes, q, alias_map))

\* some compressed chunk of the buffer was built from a chunk labelled like
\* the concept, case-insensitively
HeldCompressed(buf, concept) ==
  \E i \in 1..Len(buf) :
    /\ buf[i].is_compressed
    /\ \E j \in 1..Len(buf[i].raw_concepts) :
         Lower(buf[i].raw_concepts[j]) = Lower(concept)

\* C34: an add of a concept that an overflow evicted, made while the
\* compressed chunk built from it is still in the buffer, returns
\* "refreshed" and creates no chunk
C34_EvictedConceptRefreshes ==
  [][ (IsAddStep /\ HeldCompressed(buffer, bufResult'.concept)) =>
        /\ bufResult'.action = "refreshed"
        /\ Labels(buffer') = Labels(buffer)
        /\ compression_log' = compression_log ]_vars

\* an overflow evicted two chunks, and a later add of one of their labels in
\* the other case was answered by the compressed chunk alone
C34_Witness ==
  /\ bufResult.action = "refreshed"
  /\ HeldCompressed(buffer, bufResult.concept)
  /\ \E i \in 1..Len(buffer) :
       /\ buffer[i].is_compressed
       /\ Len(buffer[i].raw_concepts) = 2
       /\ bufResult.concept \notin SeqToSet(buffer[i].raw_concepts)
       /\ MatchingIndices(buffer, bufResult.concept) = {i}
       /\ buffer[i].access_count = 1

\* C35: the buffer never holds fuzzy duplicates: no two distinct chunks have
\* labels of which one is a case-insensitive substring of the other, the
\* labels of compressed chunks included
C35_NoFuzzyDuplicates ==
  \A i, j \in 1..Len(buffer) :
    i # j => ~FuzzyMatch(buffer[i].concept, buffer[j].concept)

\* an overflow add has put its new chunk next to the compressed chunk whose
\* label contains the new chunk's label
C35_Witness ==
  /\ bufResult.action = "compressed"
  /\ Len(buffer) >= 2
  /\ buffer[Len(buffer) - 1].is_compressed
  /\ buffer[Len(buffer)].concept = bufResult.concept
  /\ IsSubstr(Lower(bufResult.concept), Lower(buffer[Len(buffer) - 1].concept))

\* the event of a cycle that wrote no semantic entry and pruned no episode
Quiet(event) ==
  event.kind = "run" /\ event.consolidated = 0 /\ event.pruned = 0

\* the cycles logged so far: none after the first wrote a semantic entry,
\* and each one that followed a quiet cycle was quiet
LaterCyclesWriteNothing ==
  \A k \in 2..Len(consolidation_history) :
    /\ consolidation_history[k].consolidated = 0
    /\ Quiet(consolidation_history[k - 1]) => Quiet(consolidation_history[k])

\* C36: with the clock held and run the only call, the cycles reach a
\* fixpoint: from some cycle on every cycle writes no semantic entry and
\* prunes no episode, a cycle after such a cycle is one again, and no cycle
\* that follows a cycle writes a semantic entry
C36_CyclesReachFixpoint ==
  [](LaterCyclesWriteNothing) /\ <>[]Quiet(storeResult)

\* four cycles in a row: the first wrote an entry, the second and the third
\* each pruned an episode, the fourth changed nothing
C36_Witness ==
  /\ Len(consolidation_history) = 4
  /\ consolidation_history[1].consolidated = 1
  /\ consolidation_history[1].pruned = 0
  /\ consolidation_history[2].pruned = 1
  /\ consolidation_history[3].pruned = 1
  /\ Quiet(consolidation_history[4])
  /\ storeResult = consolidation_history[4]
====
